---- MODULE Spec2Model ----
(***************************************************************************)
(* Page-table engine of the kernel (kernel/src/arch/riscv/mem.rs).         *)
(*                                                                         *)
(* Physical memory is a set of 4096-byte frames.  A frame that serves as   *)
(* a page table holds 1024 entries; the model keeps the entries at the     *)
(* indices the bounded addresses can touch (TableIdx).  Every access the   *)
(* code makes to a leaf table goes through the virtual window at           *)
(* PAGE_TABLE_OFFSET of the ACTIVE address space, so it is translated by   *)
(* the tables of that address space, as the MMU does.                      *)
(*                                                                         *)
(* Addresses with the top bit set do not fit the model checker's integers, *)
(* so a virtual address is carried as [page, off] (address >> 12 and       *)
(* address & 0xfff) and a physical address as its frame number             *)
(* (address >> 12, page aligned).                                          *)
(***************************************************************************)
EXTENDS Integers, Sequences, FiniteSets, TLC

\* ------------------------------------------------------------------ bounds
\* Number of processes (address spaces); PIDs are 1..MaxPid.
MaxPid == 2
\* Frames handed to map_page_inner as data pages.
NumDataFrames == 1
\* Pages of each heap that hold buffers.
NumHeapPages == 1
\* Pages of each message area that lent and moved pages are mapped at.
NumMessagePages == 2
\* Frames the MemoryManager can still hand out for leaf page tables.
NumFreeFrames == 1
\* Clients that connect to the hosted kernel.
NumClients == 2
\* Frames each client sends.
MaxFrames == 2

\* --------------------------------------------------------------- constants
PAGE_SIZE == 4096
\* 0xff40_0000 >> 12: the page number of the leaf-table window.
PAGE_TABLE_OFFSET == 1045504
\* 0x2000_0000 >> 12 and 0x4000_0000 >> 12.
DEFAULT_HEAP_BASE == 131072
DEFAULT_MESSAGE_BASE == 262144

MMU_NONE == 0
MMU_VALID == 1
MMU_R == 2
MMU_W == 4
MMU_X == 8
MMU_USER == 16
MMU_GLOBAL == 32
MMU_A == 64
MMU_D == 128
MMU_S == 256
MMU_P == 512

\* ------------------------------------------------------------ bit algebra
RECURSIVE BitAnd(_, _)
BitAnd(a, b) ==
    IF a = 0 \/ b = 0 THEN 0
    ELSE (a % 2) * (b % 2) + 2 * BitAnd(a \div 2, b \div 2)

\* a | b
BitOr(a, b) == a + b - BitAnd(a, b)

\* a & !b
AndNot(a, b) == a - BitAnd(a, b)

\* e & f != 0 for a single flag f
Has(e, f) == BitAnd(e, f) # 0

\* ---------------------------------------------------------------- domains
PIDs == 1 .. MaxPid
NoPid == 0

\* Each process starts with three table frames: its root table, the leaf
\* table of the window region and the leaf table of its heap.
RootFrame(p) == 3 * (p - 1)
WindowFrame(p) == 3 * (p - 1) + 1
HeapFrame(p) == 3 * (p - 1) + 2
DataFrames == (3 * MaxPid) .. (3 * MaxPid + NumDataFrames - 1)
NumFrames == 3 * MaxPid + NumDataFrames + NumFreeFrames
Frames == 0 .. (NumFrames - 1)

VA(page, off) == [page |-> page, off |-> off]
Vpn1(virt) == (virt.page \div 1024) % 1024
Vpn0(virt) == virt.page % 1024

\* The pages the calls are made on: buffers live in the heap, and the pages a
\* process receives are mapped in its message area.
HeapPages == DEFAULT_HEAP_BASE .. (DEFAULT_HEAP_BASE + NumHeapPages - 1)
MessagePages == DEFAULT_MESSAGE_BASE .. (DEFAULT_MESSAGE_BASE + NumMessagePages - 1)
UserPages == HeapPages \cup MessagePages
HeapAddrs == {VA(p, 0) : p \in HeapPages}
MessageAddrs == {VA(p, 0) : p \in MessagePages}
UserAddrs == HeapAddrs \cup MessageAddrs
\* An address that is not 4-byte aligned.
Unaligned == VA(DEFAULT_HEAP_BASE, 2)

\* The table indices the bounded addresses reach: vpn0 and vpn1 of the user
\* pages, and the vpn1 of the leaf-table window.
TableIdx ==
    {pg % 1024 : pg \in UserPages} \cup {(pg \div 1024) % 1024 : pg \in UserPages}
    \cup {(PAGE_TABLE_OFFSET \div 1024) % 1024}

\* A faulty variant of ZeroPage: a table that was not cleared.
ZeroPage_NotCleared == [i \in TableIdx |-> 1024]

ZeroPage == [i \in TableIdx |-> 0]

\* xous_kernel::MemoryFlags as the set of the request bits that are set.
MemoryFlags == SUBSET {"R", "W", "X"}


\* ------------------------------------------------------------------ state
VARIABLES
    mem,      \* mem[f][i]: entry i of the table held in physical frame f
    owner,    \* MemoryManager: owner[f] is the owning PID of frame f, or NoPid
    satp,     \* the active MemoryMapping: [asid, ppn]
    unflushed, \* a page-table entry was written and flush_mmu has not run since
    halted,   \* "run", or how the kernel stopped: "panic" / "fault"
    last,     \* observation: the most recent call and its result
    hs,       \* the hosted kernel: its threads, channels, sockets and processes
    ws,       \* one connection at the level of bytes: its socket, reader and handler
    tt        \* the tick-timer server and a client of its library

vars == <<mem, owner, satp, unflushed, halted, last, hs, ws, tt>>

\* The variables of the page-table engine.
mvars == <<mem, owner, satp, unflushed, halted, last>>

\* The kernel state the operations below transform.
KState == [mem |-> mem, owner |-> owner, satp |-> satp, unflushed |-> unflushed]

\* The MemoryMapping of process p: ASID p, root table in RootFrame(p).
MappingOf(p) == [asid |-> p, ppn |-> RootFrame(p)]

get_pid(mapping) == mapping.asid

\* satp::write between two flush_mmu calls
activate(k, mapping) == [k EXCEPT !.satp = mapping, !.unflushed = FALSE]

\* ------------------------------------------------------- flag translation
\* A faulty variant of translate_flags that loses W.
translate_flags_DropsW(req_flags) ==
    BitOr(IF "R" \in req_flags THEN MMU_R ELSE MMU_NONE,
          IF "X" \in req_flags THEN MMU_X ELSE MMU_NONE)

translate_flags(req_flags) ==
    BitOr(BitOr(IF "R" \in req_flags THEN MMU_R ELSE MMU_NONE,
                IF "W" \in req_flags THEN MMU_W ELSE MMU_NONE),
          IF "X" \in req_flags THEN MMU_X ELSE MMU_NONE)

\* A faulty variant of untranslate_flags that loses X.
untranslate_flags_DropsX(req_flags) ==
    (IF BitAnd(req_flags, MMU_R) = MMU_R THEN {"R"} ELSE {})
    \cup (IF BitAnd(req_flags, MMU_W) = MMU_W THEN {"W"} ELSE {})

untranslate_flags(req_flags) ==
    (IF BitAnd(req_flags, MMU_R) = MMU_R THEN {"R"} ELSE {})
    \cup (IF BitAnd(req_flags, MMU_W) = MMU_W THEN {"W"} ELSE {})
    \cup (IF BitAnd(req_flags, MMU_X) = MMU_X THEN {"X"} ELSE {})

\* ------------------------------------------------------------ memory walk
Fault == 0 - 1

\* (entry >> 10) << 12 in a 32-bit usize, as a frame number.
PhysOf(entry) == (entry \div 1024) % 1048576

\* The MMU's two-level walk of `page` under root table `root`: the frame the
\* page is mapped to, or Fault.
HwTranslate(m, root, page) ==
    LET e1 == m[root][(page \div 1024) % 1024] IN
    IF ~Has(e1, MMU_VALID) \/ (e1 \div 1024) \notin Frames THEN Fault
    ELSE LET e0 == m[e1 \div 1024][page % 1024] IN
         IF ~Has(e0, MMU_VALID) \/ (e0 \div 1024) \notin Frames THEN Fault
         ELSE e0 \div 1024

\* The frame behind `&mut *(l0pt_virt as *mut LeafPageTable)` with
\* l0pt_virt = PAGE_TABLE_OFFSET + vpn1 * PAGE_SIZE, in the active space.
L0Frame(k, vpn1) == HwTranslate(k.mem, k.satp.ppn, PAGE_TABLE_OFFSET + vpn1)

\* The root table, read through PAGE_TABLE_ROOT_OFFSET in the active space.
L1Entry(k, vpn1) == k.mem[k.satp.ppn][vpn1]

\* ---------------------------------------------------------- MemoryManager
\* alloc_page(owner): scan for a free cell, mark it, return the frame.
alloc_page(k, pid) ==
    LET free == {f \in Frames : k.owner[f] = NoPid} IN
    IF free = {} THEN [k |-> k, res |-> "OutOfMemory", phys |-> 0]
    ELSE LET f == CHOOSE x \in free : \A y \in free : x <= y IN
         [k |-> [k EXCEPT !.owner[f] = pid], res |-> "Ok", phys |-> f]

\* ---------------------------------------------------------- map_page_inner
\* (ppn1 << 20) | (ppn0 << 10) | (flags | VALID | D | A)
MappedEntry(ppn1, ppn0, flags) ==
    BitOr(BitOr(ppn1 * 1048576, ppn0 * 1024),
          BitOr(BitOr(flags, MMU_VALID), BitOr(MMU_D, MMU_A)))

\* A faulty variant of install_entry that overwrites a mapped entry.
install_entry_Overwrites(k, vpn1, vpn0, entry) ==
    LET f == L0Frame(k, vpn1) IN
    IF f = Fault THEN [k |-> k, res |-> "fault"]
    ELSE [k |-> [k EXCEPT !.unflushed = FALSE, !.mem[f][vpn0] = entry], res |-> "Ok"]

\* A faulty variant of install_entry that writes the neighbouring slot.
install_entry_WrongSlot(k, vpn1, vpn0, entry) ==
    LET f == L0Frame(k, vpn1) IN
    IF f = Fault THEN [k |-> k, res |-> "fault"]
    ELSE IF BitAnd(k.mem[f][vpn0], 1) # 0 THEN [k |-> k, res |-> "panic"]
         ELSE [k |-> [k EXCEPT !.unflushed = FALSE,
                               !.mem[f][(vpn0 + 1) % 1024] = entry],
               res |-> "Ok"]

\* The end of map_page_inner: ensure the entry hasn't already been mapped,
\* then write it.
install_entry(k, vpn1, vpn0, entry) ==
    LET f == L0Frame(k, vpn1) IN
    IF f = Fault THEN [k |-> k, res |-> "fault"]
    ELSE IF BitAnd(k.mem[f][vpn0], 1) # 0 THEN [k |-> k, res |-> "panic"]
         ELSE [k |-> [k EXCEPT !.unflushed = FALSE, !.mem[f][vpn0] = entry], res |-> "Ok"]

RECURSIVE map_page_inner(_, _, _, _, _, _)
map_page_inner(k, pid, phys, virt, req_flags, map_user) ==
    LET ppn1 == (phys \div 1024) % 4096
        ppn0 == phys % 1024
        vpn1 == Vpn1(virt)
        vpn0 == Vpn0(virt)
        flags == BitOr(translate_flags(req_flags),
                       IF map_user THEN MMU_USER ELSE MMU_NONE)
        \* Allocate a new level 1 pagetable entry if one doesn't exist.
        l1 ==
            IF BitAnd(L1Entry(k, vpn1), MMU_VALID) = 0
            THEN LET a == alloc_page(k, pid) IN
                 IF a.res # "Ok" THEN [k |-> a.k, res |-> a.res]
                 ELSE LET k2 == [a.k EXCEPT !.unflushed = FALSE,
                                            !.mem[k.satp.ppn][vpn1] =
                                                BitOr(a.phys * 1024, MMU_VALID)]
                          n == map_page_inner(k2, pid, a.phys,
                                              VA(PAGE_TABLE_OFFSET + vpn1, 0),
                                              {"W", "R"}, FALSE)
                      IN IF n.res # "Ok" THEN n
                         ELSE \* Zero-out the new page, through its window.
                              LET z == L0Frame(n.k, vpn1) IN
                              IF z = Fault THEN [k |-> n.k, res |-> "fault"]
                              ELSE [k |-> [n.k EXCEPT !.unflushed = TRUE,
                                                      !.mem[z] = ZeroPage],
                                    res |-> "Ok"]
            ELSE [k |-> k, res |-> "Ok"]
    IN  IF l1.res # "Ok" THEN l1
        ELSE install_entry(l1.k, vpn1, vpn0, MappedEntry(ppn1, ppn0, flags))

\* ---------------------------------------------------------- pagetable_entry
\* The entry for addr as a place (frame f, index i) in physical memory; the
\* reference is into the leaf-table window, so f is L0Frame (Fault when the
\* window page is not mapped, which traps at the first dereference).
pagetable_entry(k, addr) ==
    IF addr.off % 4 # 0 THEN [res |-> "BadAlignment", f |-> Fault, i |-> 0]
    ELSE IF BitAnd(L1Entry(k, Vpn1(addr)), 1) = 0
         THEN [res |-> "BadAddress", f |-> Fault, i |-> 0]
         ELSE [res |-> "Ok", f |-> L0Frame(k, Vpn1(addr)), i |-> Vpn0(addr)]

Ret(k, res, val) == [k |-> k, res |-> res, val |-> val]

Stopped(res) == res \in {"panic", "fault"}

\* ------------------------------------------------------------- virt_to_phys
virt_to_phys(k, virt) ==
    IF BitAnd(L1Entry(k, Vpn1(virt)), MMU_VALID) = 0 THEN Ret(k, "BadAddress", 0)
    ELSE LET f == L0Frame(k, Vpn1(virt)) IN
         IF f = Fault THEN Ret(k, "fault", 0)
         ELSE IF BitAnd(k.mem[f][Vpn0(virt)], 1) = 0 THEN Ret(k, "BadAddress", 0)
              ELSE Ret(k, "Ok", PhysOf(k.mem[f][Vpn0(virt)]))

\* ---------------------------------------------------------- reserve_address
reserve_address(k, addr, flags) ==
    LET vpn1 == Vpn1(addr)
        vpn0 == Vpn0(addr)
        l1 ==
            IF BitAnd(L1Entry(k, vpn1), MMU_VALID) = 0
            THEN LET pid == get_pid(k.satp)
                     a == alloc_page(k, pid)
                 IN IF a.res # "Ok" THEN [k |-> a.k, res |-> a.res]
                    ELSE LET k2 == [a.k EXCEPT !.unflushed = FALSE,
                                               !.mem[k.satp.ppn][vpn1] =
                                                   BitOr(a.phys * 1024, MMU_VALID)]
                             n == map_page_inner(k2, pid, a.phys,
                                                 VA(PAGE_TABLE_OFFSET + vpn1, 0),
                                                 {"W", "R"}, FALSE)
                         IN IF n.res # "Ok" THEN n
                            ELSE LET z == L0Frame(n.k, vpn1) IN
                                 IF z = Fault THEN [k |-> n.k, res |-> "fault"]
                                 ELSE [k |-> [n.k EXCEPT !.unflushed = TRUE,
                                                         !.mem[z] = ZeroPage],
                                       res |-> "Ok"]
            ELSE [k |-> k, res |-> "Ok"]
    IN  IF l1.res # "Ok" THEN Ret(l1.k, l1.res, 0)
        ELSE LET f == L0Frame(l1.k, vpn1) IN
             IF f = Fault THEN Ret(l1.k, "fault", 0)
             ELSE IF BitAnd(l1.k.mem[f][vpn0], 1) = 1 THEN Ret(l1.k, "Ok", 0)
                  ELSE Ret([l1.k EXCEPT !.unflushed = TRUE,
                                        !.mem[f][vpn0] = translate_flags(flags)],
                           "Ok", 0)

\* -------------------------------------------------------- hand_page_to_user
hand_page_to_user(k, virt) ==
    IF BitAnd(L1Entry(k, Vpn1(virt)), MMU_VALID) = 0 THEN Ret(k, "BadAddress", 0)
    ELSE LET f == L0Frame(k, Vpn1(virt)) IN
         IF f = Fault THEN Ret(k, "fault", 0)
         ELSE IF BitAnd(k.mem[f][Vpn0(virt)], 1) = 0 THEN Ret(k, "BadAddress", 0)
              ELSE Ret([k EXCEPT !.unflushed = FALSE, !.mem[f][Vpn0(virt)] = BitOr(@, MMU_USER)],
                       "Ok", 0)

\* --------------------------------------------------------- unmap_page_inner
unmap_page_inner(k, virt) ==
    LET pe == pagetable_entry(k, virt) IN
    IF pe.res # "Ok" THEN Ret(k, pe.res, 0)
    ELSE IF pe.f = Fault THEN Ret(k, "fault", 0)
    ELSE LET entry == k.mem[pe.f][pe.i] IN
         IF BitAnd(entry, 1) = 0 THEN Ret(k, "BadAddress", 0)
         ELSE Ret([k EXCEPT !.unflushed = FALSE, !.mem[pe.f][pe.i] = 0], "Ok", PhysOf(entry))

\* ---------------------------------------------------------- move_page_inner
\* A faulty variant of move_page_inner that returns the result of the mapping
\* without switching back to the source address space.
move_page_inner_StaysInDest(k, src_space, src_addr, dest_pid, dest_space, dest_addr) ==
    LET pe == pagetable_entry(k, src_addr) IN
    IF pe.res # "Ok" THEN Ret(k, pe.res, 0)
    ELSE IF pe.f = Fault THEN Ret(k, "fault", 0)
    ELSE LET previous_entry == k.mem[pe.f][pe.i] IN
         IF BitAnd(previous_entry, MMU_VALID) = 0 THEN Ret(k, "BadAddress", 0)
         ELSE LET k1 == [k EXCEPT !.unflushed = FALSE, !.mem[pe.f][pe.i] = 0]
                  k2 == activate(k1, dest_space)
                  phys == PhysOf(previous_entry)
                  flags == untranslate_flags(previous_entry)
                  result == map_page_inner(k2, dest_pid, phys, dest_addr, flags,
                                           dest_pid # 1)
              IN Ret(result.k, result.res, 0)

move_page_inner(k, src_space, src_addr, dest_pid, dest_space, dest_addr) ==
    LET pe == pagetable_entry(k, src_addr) IN
    IF pe.res # "Ok" THEN Ret(k, pe.res, 0)
    ELSE IF pe.f = Fault THEN Ret(k, "fault", 0)
    ELSE LET previous_entry == k.mem[pe.f][pe.i] IN
         IF BitAnd(previous_entry, MMU_VALID) = 0 THEN Ret(k, "BadAddress", 0)
         ELSE LET k1 == [k EXCEPT !.unflushed = FALSE, !.mem[pe.f][pe.i] = 0]
                  k2 == activate(k1, dest_space)
                  phys == PhysOf(previous_entry)
                  flags == untranslate_flags(previous_entry)
                  result == map_page_inner(k2, dest_pid, phys, dest_addr, flags,
                                           dest_pid # 1)
              IN IF Stopped(result.res) THEN Ret(result.k, result.res, 0)
                 ELSE Ret(activate(result.k, src_space), result.res, 0)

\* A faulty variant of move_page that forgets the ownership table.
move_page_KeepsOwner(k, src_space, src_addr, dest_pid, dest_space, dest_addr) ==
    move_page_inner(k, src_space, src_addr, dest_pid, dest_space, dest_addr)

\* MemoryManager's move: move_page_inner, and when it succeeds the moved
\* frame is reattributed to dest_pid.
move_page(k, src_space, src_addr, dest_pid, dest_space, dest_addr) ==
    LET phys == virt_to_phys(k, src_addr)
        r == move_page_inner(k, src_space, src_addr, dest_pid, dest_space, dest_addr)
    IN  IF r.res = "Ok" /\ phys.res = "Ok" /\ phys.val \in Frames
        THEN Ret([r.k EXCEPT !.owner[phys.val] = dest_pid], r.res, r.val)
        ELSE r

\* ---------------------------------------------------------- lend_page_inner
\* A faulty variant of LentMutableEntry that leaves VALID set.
LentMutableEntry_KeepsValid(entry) == BitOr(entry, MMU_S)

\* (*entry & !VALID) | S
LentMutableEntry(entry) == BitOr(AndNot(entry, MMU_VALID), MMU_S)

\* A faulty variant of LentImmutableEntry that leaves W set.
LentImmutableEntry_KeepsW(entry) ==
    LET previous_flag == IF BitAnd(entry, MMU_W) # 0 THEN MMU_P ELSE MMU_NONE IN
    BitOr(entry, BitOr(previous_flag, MMU_S))

\* previous_flag = P if W is set; (*entry & !W) | (previous_flag | S)
LentImmutableEntry(entry) ==
    LET previous_flag == IF BitAnd(entry, MMU_W) # 0 THEN MMU_P ELSE MMU_NONE IN
    BitOr(AndNot(entry, MMU_W), BitOr(previous_flag, MMU_S))

\* A faulty variant of share_violation that lets every lend through.
share_violation_Never(entry, mutable) == FALSE

\* If we try to share a page that's already shared, mutably: a sharing violation.
share_violation(entry, mutable) == mutable /\ BitAnd(entry, MMU_S) # 0

lend_page_inner(k, src_space, src_addr, dest_pid, dest_space, dest_addr, mutable) ==
    LET pe == pagetable_entry(k, src_addr) IN
    IF pe.res # "Ok" THEN Ret(k, pe.res, 0)
    ELSE IF pe.f = Fault THEN Ret(k, "fault", 0)
    ELSE LET entry == k.mem[pe.f][pe.i]
             phys == PhysOf(entry)
         IN IF share_violation(entry, mutable) THEN Ret(k, "ShareViolation", 0)
            ELSE LET k1 == [k EXCEPT !.unflushed = FALSE, !.mem[pe.f][pe.i] =
                                IF mutable THEN LentMutableEntry(entry)
                                ELSE LentImmutableEntry(entry)]
                     k2 == activate(k1, dest_space)
                     result == map_page_inner(k2, dest_pid, phys, dest_addr,
                                              IF mutable THEN {"R", "W"} ELSE {"R"},
                                              dest_pid # 1)
                 IN IF Stopped(result.res) THEN Ret(result.k, result.res, 0)
                    ELSE Ret(activate(result.k, src_space), result.res,
                             IF result.res = "Ok" THEN phys ELSE 0)

\* -------------------------------------------------------- return_page_inner
\* A faulty variant of ReturnedEntry that does not set VALID again after a
\* mutable borrow.
ReturnedEntry_StaysInvalid(dest_entry) ==
    IF BitAnd(dest_entry, MMU_VALID) = 0
    THEN AndNot(dest_entry, MMU_S)
    ELSE LET previous_flag ==
                 IF BitAnd(dest_entry, MMU_P) # 0 THEN MMU_W ELSE MMU_NONE
         IN BitOr(AndNot(dest_entry, BitOr(MMU_S, MMU_P)), previous_flag)

\* ReturnedEntry with an immutable branch that leaves the S bit in place.
ReturnedEntry_KeepsShared(dest_entry) ==
    IF BitAnd(dest_entry, MMU_VALID) = 0
    THEN BitOr(AndNot(dest_entry, MMU_S), MMU_VALID)
    ELSE LET previous_flag ==
                 IF BitAnd(dest_entry, MMU_P) # 0 THEN MMU_W ELSE MMU_NONE
         IN BitOr(AndNot(dest_entry, MMU_P), previous_flag)

\* The lender's entry as return_page_inner rewrites it.
ReturnedEntry(dest_entry) ==
    IF BitAnd(dest_entry, MMU_VALID) = 0
    THEN \* This page was mutably borrowed.
         BitOr(AndNot(dest_entry, MMU_S), MMU_VALID)
    ELSE \* This page was immutably borrowed: its W flag was clobbered.
         LET previous_flag ==
                 IF BitAnd(dest_entry, MMU_P) # 0 THEN MMU_W ELSE MMU_NONE
         IN BitOr(AndNot(dest_entry, BitOr(MMU_S, MMU_P)), previous_flag)

return_page_inner(k, src_space, src_addr, dest_pid, dest_space, dest_addr) ==
    LET pe == pagetable_entry(k, src_addr) IN
    IF pe.res # "Ok" THEN Ret(k, pe.res, 0)
    ELSE IF pe.f = Fault THEN Ret(k, "fault", 0)
    ELSE LET src_entry == k.mem[pe.f][pe.i]
             phys == PhysOf(src_entry)
         IN IF BitAnd(src_entry, MMU_VALID) = 0 THEN Ret(k, "ShareViolation", 0)
            ELSE LET k1 == [k EXCEPT !.unflushed = FALSE, !.mem[pe.f][pe.i] = 0]
                     k2 == activate(k1, dest_space)
                     de == pagetable_entry(k2, dest_addr)
                 IN IF de.res # "Ok" THEN Ret(k2, "panic", 0)
                    ELSE IF de.f = Fault THEN Ret(k2, "fault", 0)
                    ELSE LET dest_entry == k2.mem[de.f][de.i] IN
                         IF BitAnd(dest_entry, MMU_S) = 0 THEN Ret(k2, "panic", 0)
                         ELSE Ret(activate([k2 EXCEPT !.unflushed = FALSE, !.mem[de.f][de.i] =
                                                ReturnedEntry(dest_entry)],
                                           src_space),
                                  "Ok", phys)

\* ------------------------------------------------------------ observation
\* The leaf entry of `page` in the address space of process p, found by
\* walking p's tables in physical memory (0 when there is no leaf table).
EntryOf(m, p, page) ==
    LET e1 == m[RootFrame(p)][(page \div 1024) % 1024] IN
    IF ~Has(e1, MMU_VALID) \/ (e1 \div 1024) \notin Frames THEN 0
    ELSE m[e1 \div 1024][page % 1024]

\* Whether process p has a leaf table for `page`.
HasLeafTable(m, p, page) == Has(m[RootFrame(p)][(page \div 1024) % 1024], MMU_VALID)

NoAddr == VA(0, 0)

Call(op, pid, src, dpid, dst, mutable, phys) ==
    [op |-> op, pid |-> pid, src |-> src, dpid |-> dpid, dst |-> dst,
     mutable |-> mutable, phys |-> phys, res |-> "Ok", val |-> 0]

\* Frame f is referenced by a leaf entry of some address space: mapped
\* (V) or lent out (S).
InUse(m, f) ==
    \E p \in PIDs, pg \in UserPages :
        /\ EntryOf(m, p, pg) \div 1024 = f
        /\ (Has(EntryOf(m, p, pg), MMU_VALID) \/ Has(EntryOf(m, p, pg), MMU_S))

\* The state after a call that returned (or stopped the kernel with) r.
Finish(r, call) ==
    /\ mem' = r.k.mem
    /\ owner' = r.k.owner
    /\ satp' = r.k.satp
    /\ unflushed' = r.k.unflushed
    /\ halted' = IF Stopped(r.res) THEN r.res ELSE "run"
    /\ last' = [call EXCEPT !.res = r.res, !.val = r.val]
    /\ UNCHANGED <<hs, ws, tt>>

\* ------------------------------------------------- hosted kernel: the state
\* A connection is named by the client that opened it; the process whose key
\* client c presents has PID c.
Clients == 1 .. NumClients

\* The syscalls a frame can carry, by how the dispatcher treats them; "Bad" is
\* a frame SysCall::from_args does not decode.
CallKinds == {"Call", "TerminateProcess", "Shutdown", "Bad"}

\* The TID of the n-th frame a client sends; 1 is the TID of the
\* TerminateProcess that handle_connection posts itself.
FrameTid(n) == n + 1

\* No key bytes wait in the socket.
NoKey == 0

\* idle() has no SysCall message in hand. For the message in hand, `sends`
\* counts the calls of Process::send, `frames` those that wrote their frame,
\* `handled` lists the calls handed to syscall::handle, and `result` is what
\* syscall::handle returned for the message's call. The two counts stay until
\* the next message is taken.
NoCall == [pid |-> 0, tid |-> 0, call |-> "none", response |-> <<>>,
           result |-> [ok |-> TRUE, val |-> "none"],
           sends |-> 0, frames |-> 0, handled |-> <<>>]

\* State at the start of idle()'s loop: the listen thread, the accept thread
\* and the exit listener run, every channel is empty, no client has connected
\* and every process is in Setup with its key.
HostedInit ==
    [ \* clients and their sockets
      cst |-> [c \in Clients |-> "new"],       \* new (not connected) / connected / keyed / closed
      key_sent |-> [c \in Clients |-> NoKey],  \* the 16 key bytes that wait in the socket
      sock |-> [c \in Clients |-> <<>>],       \* frames sent and not yet read
      nsent |-> [c \in Clients |-> 0],         \* frames the client has sent
      conn_shut |-> [c \in Clients |-> FALSE], \* the kernel has shut the socket down
      out |-> [c \in Clients |-> <<>>],        \* response frames written to the client
      \* channels
      chn |-> <<>>,                            \* ThreadMessage, to the dispatcher
      new_pid_channel |-> <<>>,                \* NewPidMessage, dispatcher to listen thread
      exit_channel |-> <<>>,                   \* ExitMessage, dispatcher to exit listener
      client_channel |-> <<>>,                 \* ClientMessage, to the listen thread
      shutdown_listener |-> 0,                 \* (), listen thread to accept thread
      server_channel |-> [c \in Clients |-> <<>>],  \* ServerMessage, to the handler
      should_exit |-> FALSE,
      invalid_logged |-> [c \in Clients |-> 0],  \* "Received invalid syscall" lines
      unable_logged |-> [p \in Clients |-> 0],   \* "Unable to send response" lines
      clients |-> <<>>,                        \* the listen thread's (JoinHandle, TcpStream)
      \* processes
      proc |-> [p \in Clients |-> "Setup"],    \* Setup / Ready / Terminated
      conn_of |-> [p \in Clients |-> 0],       \* the connection registered for a process
      current_pid |-> 1,
      \* threads
      idle |-> "recv",       \* recv / pre_reply / handle / reply / exit / join / done / panicked
      cur |-> NoCall,      \* the SysCall message idle() works on
      listen |-> "loop",     \* loop / read_key / wait_pid / signal / exit_server / join / done / panicked
      accepting |-> 0,       \* the connection accept_new_connection works on
      joining |-> 0,         \* index into clients in exit_server
      accept |-> "run",      \* run / done / panicked
      exit_listener |-> "wait",                 \* wait / done / panicked
      conn_thread |-> [c \in Clients |-> "none"],   \* none / run / done / panicked
      watchdog |-> [c \in Clients |-> "none"],      \* none / run / done
      handler |-> [c \in Clients |-> "none"],       \* none / loop / post / done / panicked
      handler_pid |-> [c \in Clients |-> 0],
      access_key |-> [c \in Clients |-> NoKey] ]  \* the key accept_new_connection read

\* ------------------------------------------------------------------- Init
WindowIdx == (PAGE_TABLE_OFFSET \div 1024) % 1024

HeapIdx == (DEFAULT_HEAP_BASE \div 1024) % 1024

\* Every address space starts with its root table, with the leaf table of the
\* window region, which maps itself at PAGE_TABLE_OFFSET + WindowIdx * 4096, and
\* with an empty leaf table for its heap, mapped at its place in the window.
InitMem ==
    [f \in Frames |->
        IF \E p \in PIDs : f = RootFrame(p)
        THEN [ZeroPage EXCEPT ![WindowIdx] = BitOr((f + 1) * 1024, MMU_VALID),
                              ![HeapIdx] = BitOr((f + 2) * 1024, MMU_VALID)]
        ELSE IF \E p \in PIDs : f = WindowFrame(p)
             THEN [ZeroPage EXCEPT
                      ![WindowIdx] = MappedEntry(0, f, BitOr(MMU_R, MMU_W)),
                      ![HeapIdx] = MappedEntry(0, f + 1, BitOr(MMU_R, MMU_W))]
             ELSE ZeroPage]

InitOwner ==
    [f \in Frames |->
        IF f < 3 * MaxPid THEN (f \div 3) + 1
        ELSE IF f \in DataFrames THEN 1
        ELSE NoPid]

\* ------------------------------------------------------- the tick timer
\* A u64 is held as its four 16-bit limbs, lowest first.
Zero64 == <<0, 0, 0, 0>>

\* a & b, a | b, a >> 32 and a << 32 on u64.
And64(a, b) == [i \in 1 .. 4 |-> BitAnd(a[i], b[i])]
Or64(a, b) == [i \in 1 .. 4 |-> BitOr(a[i], b[i])]
Shr32(a) == <<a[3], a[4], 0, 0>>
Shl32(a) == <<0, 0, a[1], a[2]>>

\* `as usize` on the 32-bit target and `as u64` back: the low 32 bits. (On a
\* 64-bit host the cast keeps all bits; the values cast below have none above
\* bit 31.)
AsUsize(a) == <<a[1], a[2], 0, 0>>

\* No message in flight.
NoScalar == <<>>

\* The tick-timer server before the first request.
TickInit ==
    [ time |-> Zero64,        \* the elapsed time the server's timer reads
      waiting |-> FALSE,      \* the client is blocked in try_send_message
      held |-> Zero64,        \* the time the server read for the last request
      response |-> NoScalar,  \* the Scalar2 on its way to the client
      elapsed |-> NoScalar ]  \* what elapsed_ms(cid) returned last

\* ------------------------------------------------- one connection's bytes
\* The connection before the client has written anything: the reader is about
\* to read a frame and handle_connection waits on its receiver.
WireInit ==
    [ wire |-> <<>>,          \* the bytes written to the socket and not yet read
      unsent |-> <<>>,        \* the payload the client still has to write
      eof |-> FALSE,          \* the client has shut the connection down
      written |-> <<>>,       \* the frames the client has written: [words, data]
      reader |-> "frame",     \* conn_thread: frame / payload / exited / panicked
      packet_data |-> <<>>,   \* the words of the frame whose payload is being read
      passed |-> <<>>,        \* the frames conn_thread has passed on, in order
      receiver |-> <<>>,      \* the ServerMessage channel
      handler |-> "loop",     \* handle_connection's loop: loop / done / panicked
      calls |-> <<>>,         \* the system calls sent on to the dispatcher
      invalid |-> 0 ]         \* the frames logged as invalid syscalls

Init ==
    /\ mem = InitMem
    /\ owner = InitOwner
    /\ satp = MappingOf(1)
    /\ unflushed = FALSE
    /\ halted = "run"
    /\ last = Call("init", 1, NoAddr, 0, NoAddr, FALSE, 0)
    /\ hs = HostedInit
    /\ ws = WireInit
    /\ tt = TickInit

\* ---------------------------------------------------------------- actions
MapFlags == {{"R", "W"}, {"R", "X"}}
ReserveFlags == {{"R", "W"}}

Cur == get_pid(satp)

\* SystemServices switches to another process.
Activate(p) ==
    /\ halted = "run"
    /\ p # Cur
    /\ satp' = activate(KState, MappingOf(p)).satp
    /\ last' = Call("activate", p, NoAddr, 0, NoAddr, FALSE, 0)
    /\ unflushed' = FALSE
    /\ UNCHANGED <<mem, owner, halted, hs, ws, tt>>

\* The caller maps a frame it holds, one no address space references; or it
\* maps over a page that is mapped already.
MapPage(phys, virt, flags, user) ==
    /\ halted = "run"
    /\ ~InUse(mem, phys) \/ Has(EntryOf(mem, Cur, virt.page), MMU_VALID)
    /\ Finish(LET r == map_page_inner(KState, Cur, phys, virt, flags, user)
              IN Ret(r.k, r.res, 0),
              Call("map", Cur, virt, 0, NoAddr, FALSE, phys))

ReserveAddress(addr, flags) ==
    /\ halted = "run"
    /\ Finish(reserve_address(KState, addr, flags),
              Call("reserve", Cur, addr, 0, NoAddr, FALSE, 0))

HandPageToUser(virt) ==
    /\ halted = "run"
    /\ Finish(hand_page_to_user(KState, virt),
              Call("hand", Cur, virt, 0, NoAddr, FALSE, 0))

UnmapPage(virt) ==
    /\ halted = "run"
    /\ Finish(unmap_page_inner(KState, virt),
              Call("unmap", Cur, virt, 0, NoAddr, FALSE, 0))

MovePage(src_addr, dest_pid, dest_addr) ==
    /\ halted = "run"
    /\ dest_pid # Cur
    /\ Finish(move_page(KState, satp, src_addr, dest_pid,
                        MappingOf(dest_pid), dest_addr),
              Call("move", Cur, src_addr, dest_pid, dest_addr, FALSE, 0))

\* A page is allocated in process p when its entry is mapped or lent out.
Allocated(m, p, page) ==
    Has(EntryOf(m, p, page), MMU_VALID) \/ Has(EntryOf(m, p, page), MMU_S)

\* The sender lends a page of a buffer it has allocated.
LendPage(src_addr, dest_pid, dest_addr, mutable) ==
    /\ halted = "run"
    /\ dest_pid # Cur
    /\ Allocated(mem, Cur, src_addr.page)
    /\ Finish(lend_page_inner(KState, satp, src_addr, dest_pid,
                              MappingOf(dest_pid), dest_addr, mutable),
              Call("lend", Cur, src_addr, dest_pid, dest_addr, mutable, 0))

ReturnPage(src_addr, dest_pid, dest_addr) ==
    /\ halted = "run"
    /\ dest_pid # Cur
    /\ Finish(return_page_inner(KState, satp, src_addr, dest_pid,
                                MappingOf(dest_pid), dest_addr),
              \* `mutable` records the kind of loan that is returned: the
              \* lender's entry is not valid while it is lent mutably.
              Call("return", Cur, src_addr, dest_pid, dest_addr,
                   ~Has(EntryOf(mem, dest_pid, dest_addr.page), MMU_VALID), 0))

Next ==
    \/ \E p \in PIDs : Activate(p)
    \/ \E phys \in DataFrames, virt \in HeapAddrs, flags \in MapFlags,
          user \in BOOLEAN : MapPage(phys, virt, flags, user)
    \/ \E addr \in UserAddrs, flags \in ReserveFlags : ReserveAddress(addr, flags)
    \/ \E virt \in HeapAddrs : HandPageToUser(virt)
    \/ \E virt \in UserAddrs \cup {Unaligned} : UnmapPage(virt)
    \/ \E s \in HeapAddrs \cup {Unaligned}, d \in MessageAddrs, p \in PIDs :
          MovePage(s, p, d)
    \/ \E s \in HeapAddrs \cup {Unaligned}, d \in MessageAddrs, p \in PIDs,
          m \in BOOLEAN : LendPage(s, p, d, m)
    \/ \E s \in MessageAddrs \cup {Unaligned}, d \in HeapAddrs, p \in PIDs :
          ReturnPage(s, p, d)

Spec == Init /\ [][Next]_vars

\* ================================================================ claims
IsV(e) == Has(e, MMU_VALID)
IsW(e) == Has(e, MMU_W)
IsS(e) == Has(e, MMU_S)
IsP(e) == Has(e, MMU_P)
FrameOf(e) == e \div 1024

\* lend_page_inner called by the active process for heap page s, lending to
\* page d of borrower b.
LendFrom(k, s, b, d, mutable) ==
    lend_page_inner(k, k.satp, s, b, MappingOf(b), d, mutable)

\* return_page_inner called by borrower b, once it runs, for the pair (d, s)
\* of a loan from lender l.
ReturnTo(k, b, d, l, s) ==
    return_page_inner(activate(k, MappingOf(b)), MappingOf(b), d, l, MappingOf(l), s)

\* C1: from every reachable state, for every lender entry with V=1, S=0, P=0
\* and every borrower address that is not mapped: a mutable lend that succeeds,
\* followed by the return for the same pair of addresses, succeeds and leaves
\* the lender's entry equal to its value before the lend and the borrower's
\* entry equal to 0.
C1_MutableLendReturnRestores ==
    halted = "run" =>
    \A s \in HeapAddrs, d \in MessageAddrs, b \in PIDs \ {Cur} :
        LET pre == EntryOf(mem, Cur, s.page)
            lend == LendFrom(KState, s, b, d, TRUE)
            ret == ReturnTo(lend.k, b, d, Cur, s)
        IN  (/\ IsV(pre) /\ ~IsS(pre) /\ ~IsP(pre)
             /\ ~IsV(EntryOf(mem, b, d.page))
             /\ lend.res = "Ok")
            => /\ ret.res = "Ok"
               /\ EntryOf(ret.k.mem, Cur, s.page) = pre
               /\ EntryOf(ret.k.mem, b, d.page) = 0

\* C1 witness: a mutable loan of a writable page has been returned; the
\* lender's entry is valid, writable and not shared again and the borrower's
\* entry is 0.
C1_Witness ==
    /\ last.op = "return" /\ last.res = "Ok" /\ last.mutable
    /\ LET e == EntryOf(mem, last.dpid, last.dst.page) IN
       IsV(e) /\ IsW(e) /\ ~IsS(e) /\ ~IsP(e)
    /\ EntryOf(mem, last.pid, last.src.page) = 0

\* C2 as claimed: from every reachable state, for every lender entry with V=1
\* and S=0 (W either way): an immutable lend that succeeds, followed by the
\* return, leaves W as it was before the lend, with S=0 and P=0.
C2_ImmutableLendReturnRestoresW ==
    halted = "run" =>
    \A s \in HeapAddrs, d \in MessageAddrs, b \in PIDs \ {Cur} :
        LET pre == EntryOf(mem, Cur, s.page)
            lend == LendFrom(KState, s, b, d, FALSE)
            ret == ReturnTo(lend.k, b, d, Cur, s)
            post == EntryOf(ret.k.mem, Cur, s.page)
        IN  (IsV(pre) /\ ~IsS(pre) /\ lend.res = "Ok")
            => /\ ret.res = "Ok"
               /\ IsW(post) = IsW(pre)
               /\ ~IsS(post) /\ ~IsP(post)

\* The borrow targets of the entry of (p, pg): the valid entries of other
\* address spaces that map the same frame and are not themselves lent on.
BorrowTargets(p, pg) ==
    {t \in (PIDs \ {p}) \X UserPages :
        /\ IsV(EntryOf(mem, t[1], t[2]))
        /\ ~IsS(EntryOf(mem, t[1], t[2]))
        /\ FrameOf(EntryOf(mem, t[1], t[2])) = FrameOf(EntryOf(mem, p, pg))}

\* C3 as claimed: while the kernel runs, an entry has S=1 if and only if its
\* frame is mapped in exactly one other address space as a borrow target.
C3_SharedIffOneBorrower ==
    halted = "run" =>
    \A p \in PIDs, pg \in HeapPages :
        IsS(EntryOf(mem, p, pg)) <=> Cardinality(BorrowTargets(p, pg)) = 1

\* C4 as claimed: while the kernel runs, every leaf entry with P=1 has S=1.
C4_PImpliesS ==
    halted = "run" =>
    \A p \in PIDs, pg \in UserPages :
        IsP(EntryOf(mem, p, pg)) => IsS(EntryOf(mem, p, pg))

\* C5: right after map_page_inner(phys, addr, flags, user) returned Ok in the
\* active address space, virt_to_phys(addr) returns Ok(phys) there and the
\* leaf entry of addr has V=1.
C5_MapThenVirtToPhys ==
    (last.op = "map" /\ last.res = "Ok") =>
        /\ virt_to_phys(KState, last.src).res = "Ok"
        /\ virt_to_phys(KState, last.src).val = last.phys
        /\ IsV(EntryOf(mem, last.pid, last.src.page))

\* C5 witness: a map call has returned Ok and its page is mapped.
C5_Witness ==
    /\ last.op = "map" /\ last.res = "Ok"
    /\ IsV(EntryOf(mem, last.pid, last.src.page))
    /\ FrameOf(EntryOf(mem, last.pid, last.src.page)) = last.phys

\* The entries a call reads and writes, before (0) and after (1) the step
\* that `last'` describes: the caller's entry at src and the other process's
\* entry at dst.
SrcEntry0 == EntryOf(mem, last'.pid, last'.src.page)
SrcEntry1 == EntryOf(mem', last'.pid, last'.src.page)
DstEntry0 == EntryOf(mem, last'.dpid, last'.dst.page)
DstEntry1 == EntryOf(mem', last'.dpid, last'.dst.page)
KStateAfter ==
    [mem |-> mem', owner |-> owner', satp |-> satp', unflushed |-> unflushed']

\* C6 as claimed: map_page_inner on an address whose entry has V=1 returns
\* AlreadyMapped and leaves the entry unchanged.
C6_MapOverValidReturnsError ==
    [][(last'.op = "map" /\ IsV(SrcEntry0))
       => (last'.res = "AlreadyMapped" /\ SrcEntry1 = SrcEntry0)]_vars

\* C6 amended: map_page_inner on an address whose entry has V=1 panics: it
\* returns nothing to its caller, the kernel stops, and no table is changed.
C6_MapOverValidPanics ==
    [][(last'.op = "map" /\ IsV(SrcEntry0))
       => (last'.res = "panic" /\ halted' = "panic" /\ mem' = mem)]_vars

\* C6 witness: a map call on a mapped page has panicked.
C6_Witness ==
    /\ last.op = "map" /\ last.res = "panic" /\ halted = "panic"
    /\ IsV(EntryOf(mem, last.pid, last.src.page))

\* C7: a mutable lend of an aligned address whose lender entry has S=1 returns
\* ShareViolation and changes nothing (no table, no frame's owner, not the
\* active address space); otherwise the lender's entry becomes
\* the old entry with V cleared and S set, all other bits unchanged, and when
\* the call returns Ok the borrower's entry at dest_addr is valid, readable and
\* writable and maps the frame of the lender's entry.
C7_MutableLend ==
    [][(last'.op = "lend" /\ last'.mutable /\ last'.src \in HeapAddrs)
       => IF IsS(SrcEntry0)
          THEN last'.res = "ShareViolation" /\ UNCHANGED <<mem, owner, satp>>
          ELSE /\ SrcEntry1 = SrcEntry0 - (IF IsV(SrcEntry0) THEN MMU_VALID ELSE 0)
                                        + MMU_S
               /\ last'.res = "Ok"
                  => /\ IsV(DstEntry1) /\ Has(DstEntry1, MMU_R) /\ IsW(DstEntry1)
                     /\ FrameOf(DstEntry1) = FrameOf(SrcEntry0)]_vars

\* C7 witness: a mutable lend has returned Ok; the lender's entry is lent and
\* not valid, the borrower's entry is valid and writable.
C7_Witness ==
    /\ last.op = "lend" /\ last.mutable /\ last.res = "Ok"
    /\ IsS(EntryOf(mem, last.pid, last.src.page))
    /\ ~IsV(EntryOf(mem, last.pid, last.src.page))
    /\ IsV(EntryOf(mem, last.dpid, last.dst.page))
    /\ IsW(EntryOf(mem, last.dpid, last.dst.page))

\* What C8 says of an immutable lend apart from the P bit: the lender keeps V
\* and the frame, has W=0 and S=1, and when the call returns Ok the borrower's
\* entry is valid, readable, not writable and maps the same frame.
ImmutableLendEffect ==
    /\ ~IsW(SrcEntry1) /\ IsS(SrcEntry1) /\ IsV(SrcEntry1)
    /\ FrameOf(SrcEntry1) = FrameOf(SrcEntry0)
    /\ last'.res = "Ok"
       => /\ IsV(DstEntry1) /\ Has(DstEntry1, MMU_R) /\ ~IsW(DstEntry1)
          /\ FrameOf(DstEntry1) = FrameOf(SrcEntry0)

ImmutableLendOfValid ==
    last'.op = "lend" /\ ~last'.mutable /\ last'.src \in HeapAddrs /\ IsV(SrcEntry0)

\* C8 as claimed: after an immutable lend of a valid lender entry, P=1 exactly
\* when W was 1 before the call (and the rest of the effect).
C8_ImmutableLendPIffW ==
    [][ImmutableLendOfValid
       => (ImmutableLendEffect /\ (IsP(SrcEntry1) <=> IsW(SrcEntry0)))]_vars

\* C8 amended: after an immutable lend of a valid lender entry, P=1 exactly
\* when W or P was 1 before the call (and the rest of the effect).
C8_ImmutableLendPIffWOrP ==
    [][ImmutableLendOfValid
       => (ImmutableLendEffect
           /\ (IsP(SrcEntry1) <=> (IsW(SrcEntry0) \/ IsP(SrcEntry0))))]_vars

\* C8 witness: an immutable lend of a writable page has returned Ok.
C8_Witness ==
    /\ last.op = "lend" /\ ~last.mutable /\ last.res = "Ok"
    /\ LET e == EntryOf(mem, last.pid, last.src.page) IN
       IsV(e) /\ IsS(e) /\ IsP(e) /\ ~IsW(e)
    /\ LET b == EntryOf(mem, last.dpid, last.dst.page) IN IsV(b) /\ ~IsW(b)

\* The share-state violations C9 names: a lend of an entry that is lent
\* already, and a return of a page that is not lent (the borrower's entry is
\* not valid, or the lender's entry lacks S).
LendOfShared == last'.op = "lend" /\ last'.src \in HeapAddrs /\ IsS(SrcEntry0)
ReturnOfNotLent ==
    /\ last'.op = "return" /\ last'.src \in MessageAddrs
    /\ ~IsV(SrcEntry0) \/ ~IsS(DstEntry0)

\* C9 as claimed: a lend of an entry with S=1 and a return of a page that is
\* not lent each end in a panic, never in an error returned to the caller.
C9_ShareViolationsPanic ==
    [][(LendOfShared \/ ReturnOfNotLent)
       => (last'.res = "panic" /\ halted' = "panic")]_vars

\* C9 amended: a mutable lend of an entry with S=1 returns ShareViolation to
\* its caller and the kernel keeps running; a return whose borrower entry is
\* not valid returns an error to its caller (ShareViolation, or BadAddress when
\* the borrower has no leaf table for the address) and the kernel keeps
\* running; only a return whose borrower entry is valid while the lender's
\* entry lacks S panics.
C9_ShareViolationsErrOrPanic ==
    [][/\ (LendOfShared /\ last'.mutable)
          => (last'.res = "ShareViolation" /\ halted' = "run")
       /\ (last'.op = "return" /\ last'.src \in MessageAddrs /\ ~IsV(SrcEntry0))
          => /\ last'.res = (IF HasLeafTable(mem, last'.pid, last'.src.page)
                             THEN "ShareViolation" ELSE "BadAddress")
             /\ halted' = "run"
       /\ (last'.op = "return" /\ last'.src \in MessageAddrs
           /\ IsV(SrcEntry0) /\ ~IsS(DstEntry0))
          => (last'.res = "panic" /\ halted' = "panic")]_vars

\* C9 witness: a mutable lend of a lent page has returned ShareViolation and
\* the kernel is running.
C9_Witness ==
    /\ last.op = "lend" /\ last.mutable /\ last.res = "ShareViolation"
    /\ halted = "run"
    /\ IsS(EntryOf(mem, last.pid, last.src.page))

\* C10: after move_page_inner returns Ok, the source entry is 0 and
\* virt_to_phys of the source address fails in the source space; the
\* destination entry is valid, maps the frame the source entry mapped, has the
\* source entry's R, W and X bits, and has neither S nor P.
C10_MoveTransfersMapping ==
    [][(last'.op = "move" /\ last'.res = "Ok")
       => /\ SrcEntry1 = 0
          /\ virt_to_phys(KStateAfter, last'.src).res # "Ok"
          /\ IsV(DstEntry1)
          /\ FrameOf(DstEntry1) = FrameOf(SrcEntry0)
          /\ \A f \in {MMU_R, MMU_W, MMU_X} : Has(DstEntry1, f) <=> Has(SrcEntry0, f)
          /\ ~IsS(DstEntry1) /\ ~IsP(DstEntry1)]_vars

\* C10 witness: an executable page has been moved; the destination entry is
\* valid and executable and the source entry is 0.
C10_Witness ==
    /\ last.op = "move" /\ last.res = "Ok"
    /\ EntryOf(mem, last.pid, last.src.page) = 0
    /\ IsV(EntryOf(mem, last.dpid, last.dst.page))
    /\ Has(EntryOf(mem, last.dpid, last.dst.page), MMU_X)

\* C11 as claimed: move_page_inner is atomic. After every move call, either
\* the destination entry is valid and maps the frame while the source entry is
\* 0, or the call did not return Ok and the source entry holds its value from
\* before the call.
C11_MoveAtomic ==
    [][last'.op = "move"
       => \/ /\ IsV(DstEntry1) /\ FrameOf(DstEntry1) = FrameOf(SrcEntry0)
             /\ SrcEntry1 = 0
          \/ last'.res # "Ok" /\ SrcEntry1 = SrcEntry0]_vars

\* C12: after a move that returns Ok the moved frame is attributed to dest_pid
\* and not to the PID that moved it; a lend or a return, whatever it returns,
\* leaves the owner of the frame of the lender's entry unchanged.
C12_OwnershipFollowsTransfer ==
    [][/\ (last'.op = "move" /\ last'.res = "Ok")
          => /\ owner'[FrameOf(SrcEntry0)] = last'.dpid
             /\ owner'[FrameOf(SrcEntry0)] # last'.pid
       /\ (last'.op = "lend" /\ last'.src \in HeapAddrs)
          => owner'[FrameOf(SrcEntry0)] = owner[FrameOf(SrcEntry0)]
       /\ (last'.op = "return" /\ last'.src \in MessageAddrs /\ IsV(SrcEntry0))
          => owner'[FrameOf(SrcEntry0)] = owner[FrameOf(SrcEntry0)]]_vars

\* C12 witness: a page has been moved and its frame belongs to the receiver.
C12_Witness ==
    /\ last.op = "move" /\ last.res = "Ok"
    /\ IsV(EntryOf(mem, last.dpid, last.dst.page))
    /\ owner[FrameOf(EntryOf(mem, last.dpid, last.dst.page))] = last.dpid

\* The entry reserve_address writes for the flags it is given: R, W and X as
\* requested, nothing else.
ReservedEntry(flags) ==
    (IF "R" \in flags THEN 2 ELSE 0) + (IF "W" \in flags THEN 4 ELSE 0)
    + (IF "X" \in flags THEN 8 ELSE 0)

\* C13: after reserve_address returns Ok the address has a leaf table; an entry
\* that had V=0 holds exactly the translated flags of the request, with V=0; on
\* an entry that had V=1 the call returns Ok and changes nothing, so any number
\* of calls on it equals none.
C13_ReserveAddress ==
    [][last'.op = "reserve"
       => /\ last'.res = "Ok" => HasLeafTable(mem', last'.pid, last'.src.page)
          /\ (last'.res = "Ok" /\ ~IsV(SrcEntry0))
             => /\ \E flags \in ReserveFlags : SrcEntry1 = ReservedEntry(flags)
                /\ ~IsV(SrcEntry1)
          /\ IsV(SrcEntry0)
             => last'.res = "Ok" /\ UNCHANGED <<mem, owner, satp>>]_vars

\* C13 witness: reserve_address has allocated a leaf table for a message page
\* and written the flags, without V.
C13_Witness ==
    /\ last.op = "reserve" /\ last.res = "Ok" /\ last.src \in MessageAddrs
    /\ HasLeafTable(mem, last.pid, last.src.page)
    /\ EntryOf(mem, last.pid, last.src.page) = MMU_R + MMU_W

\* ======================================================= hosted kernel
\* The key client c presents, and the process a key was created for.
KeyOf(c) == c
UnknownKey == NumClients + 1
Keys == {KeyOf(c) : c \in Clients} \cup {UnknownKey}
\* The process created with key k, or 0 when there is none.
PidOfKey(k) == IF \E c \in Clients : KeyOf(c) = k
               THEN CHOOSE c \in Clients : KeyOf(c) = k
               ELSE 0

\* A faulty variant of Send that puts the message at the head of the queue.
Send_AtHead(q, m) == <<m>> \o q

\* Sender::send on an mpsc channel: messages are received in the order sent.
Send(q, m) == Append(q, m)

\* Whether the receiving end of a channel still exists. A thread drops the
\* receivers it owns when it returns or panics; a `for msg in receiver` loop
\* drops its receiver when the loop is left.
MessageReceiverAlive(h) == h.idle \notin {"done", "panicked"}
NewPidReceiverAlive(h) == h.listen \notin {"done", "panicked"}
ClientReceiverAlive(h) == h.listen \in {"loop", "read_key", "wait_pid"}
ShutdownReceiverAlive(h) == h.accept = "run"
ServerReceiverAlive(h, c) == h.handler[c] = "loop"
\* Whether a sender of the ThreadMessage channel still exists: the listen
\* thread holds one and every handler thread holds a clone.
MessageSenderAlive(h) ==
    \/ h.listen \notin {"done", "panicked"}
    \/ \E c \in Clients : h.handler[c] \in {"loop", "post"}

\* ------------------------------------------------------------ the clients
\* The kernel process has not ended.
KernelRuns == hs.idle \notin {"done", "panicked"}

\* A connected client sends its 16-byte key.
\* The keys client c may present: the first client presents its own, the
\* others any key, registered or not.
KeyChoices(c) == IF c = 1 THEN {KeyOf(c)} ELSE Keys

ClientSendKey(c, key) ==
    /\ KernelRuns
    /\ hs.cst[c] = "connected"
    /\ key \in KeyChoices(c)
    /\ hs' = [hs EXCEPT !.cst[c] = "keyed", !.key_sent[c] = key]
    /\ UNCHANGED <<mvars, ws, tt>>

\* The number of frames client c sends: the first client sends MaxFrames, the
\* others one each.
FrameLimit(c) == IF c = 1 THEN MaxFrames ELSE 1

\* The frames client c sends: the first client sends every kind, the others
\* plain calls.
FrameKinds(c) == IF c = 1 THEN CallKinds ELSE {"Call"}

\* A client sends a 9-word frame: its next TID and a syscall.
ClientSendFrame(c, call) ==
    /\ KernelRuns
    /\ hs.cst[c] = "keyed"
    /\ hs.nsent[c] < FrameLimit(c)
    /\ call \in FrameKinds(c)
    /\ hs' = [hs EXCEPT !.sock[c] = Append(@, [tid |-> FrameTid(hs.nsent[c] + 1),
                                               call |-> call]),
                        !.nsent[c] = @ + 1]
    /\ UNCHANGED <<mvars, ws, tt>>

\* A client closes its socket (or dies).
ClientClose(c) ==
    /\ KernelRuns
    /\ hs.cst[c] \in {"connected", "keyed"}
    /\ hs' = [hs EXCEPT !.cst[c] = "closed"]
    /\ UNCHANGED <<mvars, ws, tt>>

\* read_exact fails: the peer has closed, or the kernel has shut the socket
\* down, and no sent bytes are left to read.
AtEof(h, c) == h.cst[c] = "closed" \/ h.conn_shut[c]

\* ------------------------------------------------------ the accept thread
\* A client connects and listener.accept() returns the connection: it is
\* sent to the listen thread; the unwrap panics when the listen thread has
\* left its loop.
AcceptConnection(c) ==
    /\ hs.accept = "run"
    /\ hs.cst[c] = "new"
    /\ hs' = IF ClientReceiverAlive(hs)
             THEN [hs EXCEPT !.cst[c] = "connected",
                             !.client_channel =
                                 Send(@, [type |-> "NewConnection", conn |-> c])]
             ELSE [hs EXCEPT !.cst[c] = "connected", !.accept = "panicked"]
    /\ UNCHANGED <<mvars, ws, tt>>

\* accept() would block and the shutdown channel has a message or has lost
\* its sender: the thread returns. (On a timeout it polls again.)
AcceptShutdown ==
    /\ hs.accept = "run"
    /\ hs.shutdown_listener > 0 \/ hs.listen \in {"done", "panicked"}
    /\ hs' = [hs EXCEPT !.accept = "done"]
    /\ UNCHANGED <<mvars, ws, tt>>

\* ------------------------------------------------------- the exit listener
\* exit_channel.recv() returns Exit: relay it to the listen thread; the unwrap
\* panics when the listen thread has left its loop.
ExitListener ==
    /\ hs.exit_listener = "wait"
    /\ hs.exit_channel # <<>>
    /\ hs' = IF ClientReceiverAlive(hs)
             THEN [hs EXCEPT !.exit_channel = Tail(@), !.exit_listener = "done",
                             !.client_channel = Send(@, [type |-> "Exit", conn |-> 0])]
             ELSE [hs EXCEPT !.exit_channel = Tail(@), !.exit_listener = "panicked"]
    /\ UNCHANGED <<mvars, ws, tt>>

\* exit_channel.recv() fails because idle() is gone: the thread ends.
ExitListenerDisconnected ==
    /\ hs.exit_listener = "wait"
    /\ hs.exit_channel = <<>>
    /\ hs.idle \in {"done", "panicked"}
    /\ hs' = [hs EXCEPT !.exit_listener = "done"]
    /\ UNCHANGED <<mvars, ws, tt>>

\* ------------------------------------------------------ the listen thread
\* The loop of listen_thread takes the next ClientMessage.
ListenRecv ==
    /\ hs.listen = "loop"
    /\ hs.client_channel # <<>>
    /\ LET msg == Head(hs.client_channel) IN
       hs' = IF msg.type = "NewConnection"
             THEN [hs EXCEPT !.client_channel = Tail(@), !.listen = "read_key",
                             !.accepting = msg.conn]
             ELSE [hs EXCEPT !.client_channel = Tail(@), !.listen = "signal"]
    /\ UNCHANGED <<mvars, ws, tt>>

\* accept_new_connection reads the access key (blocking) and asks the
\* dispatcher for the PID. The read's unwrap panics when the client is gone,
\* the send's expect when idle() is gone.
ListenReadKey ==
    /\ hs.listen = "read_key"
    /\ LET c == hs.accepting IN
       /\ hs.key_sent[c] # NoKey \/ AtEof(hs, c)
       /\ hs' = IF hs.key_sent[c] # NoKey /\ MessageReceiverAlive(hs)
                THEN [hs EXCEPT !.key_sent[c] = NoKey, !.listen = "wait_pid",
                                !.access_key[c] = hs.key_sent[c],
                                !.chn = Send(@, [type |-> "NewConnection", conn |-> c,
                                                 key |-> hs.key_sent[c], pid |-> 0,
                                                 tid |-> 0, call |-> "none"])]
                ELSE [hs EXCEPT !.listen = "panicked"]
    /\ UNCHANGED <<mvars, ws, tt>>

\* A faulty variant of ListenSpawn that names the process after the position
\* of the connection instead of the PID the dispatcher sent back.
ListenSpawn_PidByPosition ==
    /\ hs.listen = "wait_pid"
    /\ hs.new_pid_channel # <<>> \/ ~MessageReceiverAlive(hs)
    /\ LET c == hs.accepting IN
       hs' = IF hs.new_pid_channel # <<>>
             THEN [hs EXCEPT !.new_pid_channel = Tail(@), !.listen = "loop",
                             !.accepting = 0,
                             !.handler[c] = "loop", !.conn_thread[c] = "run",
                             !.watchdog[c] = "run",
                             !.handler_pid[c] = c,
                             !.clients = Append(@, c)]
             ELSE [hs EXCEPT !.listen = "panicked"]
    /\ UNCHANGED <<mvars, ws, tt>>

\* accept_new_connection receives the PID and spawns handle_connection, which
\* starts the connection's reader and should_exit threads; the connection is
\* pushed on `clients`. The recv's expect panics when idle() is gone.
ListenSpawn ==
    /\ hs.listen = "wait_pid"
    /\ hs.new_pid_channel # <<>> \/ ~MessageReceiverAlive(hs)
    /\ LET c == hs.accepting IN
       hs' = IF hs.new_pid_channel # <<>>
             THEN [hs EXCEPT !.new_pid_channel = Tail(@), !.listen = "loop",
                             !.accepting = 0,
                             !.handler[c] = "loop", !.conn_thread[c] = "run",
                             !.watchdog[c] = "run",
                             !.handler_pid[c] = Head(hs.new_pid_channel),
                             !.clients = Append(@, c)]
             ELSE [hs EXCEPT !.listen = "panicked"]
    /\ UNCHANGED <<mvars, ws, tt>>

\* After the loop: shutdown_listener.send(()).unwrap(), which panics when the
\* accept thread is gone, then exit_server stores should_exit.
ListenSignal ==
    /\ hs.listen = "signal"
    /\ hs' = IF ShutdownReceiverAlive(hs)
             THEN [hs EXCEPT !.shutdown_listener = @ + 1, !.should_exit = TRUE,
                             !.listen = "exit_server", !.joining = 1]
             ELSE [hs EXCEPT !.listen = "panicked"]
    /\ UNCHANGED <<mvars, ws, tt>>

\* exit_server: shut the next client's connection down, or return when every
\* client is done.
ListenExitServer ==
    /\ hs.listen = "exit_server"
    /\ hs' = IF hs.joining > Len(hs.clients)
             THEN [hs EXCEPT !.listen = "done"]
             ELSE [hs EXCEPT !.conn_shut[hs.clients[hs.joining]] = TRUE,
                             !.listen = "join"]
    /\ UNCHANGED <<mvars, ws, tt>>

\* exit_server: jh.join() returns when the client's handle_connection thread
\* has ended; its expect panics when that thread panicked.
ListenJoin ==
    /\ hs.listen = "join"
    /\ LET c == hs.clients[hs.joining] IN
       /\ hs.handler[c] \in {"done", "panicked"}
       /\ hs' = IF hs.handler[c] = "done"
                THEN [hs EXCEPT !.joining = @ + 1, !.listen = "exit_server"]
                ELSE [hs EXCEPT !.listen = "panicked"]
    /\ UNCHANGED <<mvars, ws, tt>>

\* -------------------------------------------- the threads of a connection
\* conn_thread reads a frame and sends it to the handler; the unwrap panics
\* when the handler has left its loop.
ReaderRead(c) ==
    /\ hs.conn_thread[c] = "run"
    /\ hs.sock[c] # <<>>
    /\ hs' = IF ServerReceiverAlive(hs, c)
             THEN [hs EXCEPT !.sock[c] = Tail(@),
                             !.server_channel[c] =
                                 Send(@, [type |-> "ServerPacket",
                                          pkt |-> Head(hs.sock[c])])]
             ELSE [hs EXCEPT !.sock[c] = Tail(@), !.conn_thread[c] = "panicked"]
    /\ UNCHANGED <<mvars, ws, tt>>

\* conn_thread's read fails: it sends Exit (ignoring a failure) and returns.
ReaderEof(c) ==
    /\ hs.conn_thread[c] = "run"
    /\ hs.sock[c] = <<>>
    /\ AtEof(hs, c)
    /\ hs' = IF ServerReceiverAlive(hs, c)
             THEN [hs EXCEPT !.conn_thread[c] = "done",
                             !.server_channel[c] =
                                 Send(@, [type |-> "Exit",
                                          pkt |-> [tid |-> 0, call |-> "none"]])]
             ELSE [hs EXCEPT !.conn_thread[c] = "done"]
    /\ UNCHANGED <<mvars, ws, tt>>

\* The should_exit thread sees the flag set: it sends Exit (ignoring a
\* failure) and returns. (While the flag is clear it parks and polls again.)
Watchdog(c) ==
    /\ hs.watchdog[c] = "run"
    /\ hs.should_exit
    /\ hs' = IF ServerReceiverAlive(hs, c)
             THEN [hs EXCEPT !.watchdog[c] = "done",
                             !.server_channel[c] =
                                 Send(@, [type |-> "Exit",
                                          pkt |-> [tid |-> 0, call |-> "none"]])]
             ELSE [hs EXCEPT !.watchdog[c] = "done"]
    /\ UNCHANGED <<mvars, ws, tt>>

\* A faulty variant of DecodeFails that takes every frame for a syscall.
DecodeFails_Never(pkt) == FALSE

\* SysCall::from_args fails on the frame.
DecodeFails(pkt) == pkt.call = "Bad"

\* handle_connection's loop takes the next ServerMessage: Exit ends the loop
\* (and drops the receiver); a frame that decodes is sent to the dispatcher,
\* with an expect that panics when idle() is gone; one that does not is logged.
HandlerRecv(c) ==
    /\ hs.handler[c] = "loop"
    /\ hs.server_channel[c] # <<>>
    /\ LET msg == Head(hs.server_channel[c]) IN
       hs' = IF msg.type = "Exit"
             THEN [hs EXCEPT !.server_channel[c] = <<>>, !.handler[c] = "post"]
             ELSE IF DecodeFails(msg.pkt)
             THEN [hs EXCEPT !.server_channel[c] = Tail(@),
                             !.invalid_logged[c] = @ + 1]
             ELSE IF MessageReceiverAlive(hs)
             THEN [hs EXCEPT !.server_channel[c] = Tail(@),
                             !.chn = Send(@, [type |-> "SysCall", conn |-> 0,
                                              key |-> 0, pid |-> hs.handler_pid[c],
                                              tid |-> msg.pkt.tid,
                                              call |-> msg.pkt.call])]
             ELSE [hs EXCEPT !.server_channel[c] = Tail(@), !.handler[c] = "panicked"]
    /\ UNCHANGED <<mvars, ws, tt>>

\* After its loop handle_connection posts TerminateProcess with TID 1; the
\* unwrap panics when idle() is gone.
HandlerPost(c) ==
    /\ hs.handler[c] = "post"
    /\ hs' = IF MessageReceiverAlive(hs)
             THEN [hs EXCEPT !.handler[c] = "done",
                             !.chn = Send(@, [type |-> "SysCall", conn |-> 0,
                                              key |-> 0, pid |-> hs.handler_pid[c],
                                              tid |-> 1,
                                              call |-> "TerminateProcess"])]
             ELSE [hs EXCEPT !.handler[c] = "panicked"]
    /\ UNCHANGED <<mvars, ws, tt>>

\* ---------------------------------------------------------- the dispatcher
\* crate::syscall::handle, by what the dispatcher sees of it: the outcomes a
\* call can have. TerminateProcess ends a process that runs and closes its
\* connection; any other call may leave another process current.
TerminateOutcome(h, pid) ==
    IF h.proc[pid] = "Ready"
    THEN [h |-> [h EXCEPT !.proc[pid] = "Terminated",
                          !.conn_shut[h.conn_of[pid]] = TRUE],
          ok |-> TRUE, val |-> "Ok"]
    ELSE [h |-> h, ok |-> FALSE, val |-> "ProcessNotFound"]

HandleOutcomes(h, pid, call) ==
    IF call = "TerminateProcess" THEN {TerminateOutcome(h, pid)}
    ELSE IF call = "Shutdown" THEN {[h |-> h, ok |-> TRUE, val |-> "Ok"]}
    ELSE {[h |-> [h EXCEPT !.current_pid = np], ok |-> TRUE, val |-> "Scalar1"] :
             np \in Clients}
         \cup {[h |-> h, ok |-> TRUE, val |-> "BlockedProcess"],
               [h |-> h, ok |-> FALSE, val |-> "BadAddress"]}

\* handle(..).unwrap_or_else(Result::Error), as the words of the response.
ResponseOf(outcome) ==
    IF outcome.ok THEN <<outcome.val>> ELSE <<"Error", outcome.val>>

\* Process::send of the current process: whether the write can succeed.
CanSend(h) ==
    LET p == h.current_pid IN
    /\ h.proc[p] = "Ready"
    /\ h.cst[h.conn_of[p]] # "closed"
    /\ ~h.conn_shut[h.conn_of[p]]

\* A faulty variant of SendResponse that sends to the connection of the
\* wrong process.
SendResponse_WrongProcess(h, pid, thread_id, response) ==
    LET other == CHOOSE p \in Clients : p # h.current_pid IN
    [h EXCEPT !.out[other] = Append(@, [tid |-> thread_id, response |-> response]),
              !.cur.sends = @ + 1,
              !.cur.frames = @ + 1]

\* A faulty variant of SendResponse that ignores a failed send.
SendResponse_IgnoresFailure(h, pid, thread_id, response) ==
    IF CanSend(h)
    THEN [h EXCEPT !.out[h.conn_of[h.current_pid]] =
                       Append(@, [tid |-> thread_id, response |-> response]),
                   !.cur.sends = @ + 1,
                   !.cur.frames = @ + 1]
    ELSE [h EXCEPT !.cur.sends = @ + 1]

\* Build the response frame (thread_id, then the words of the response) and
\* send it to the current process; when the send fails, handle
\* TerminateProcess for pid.
SendResponse(h, pid, thread_id, response) ==
    IF CanSend(h)
    THEN [h EXCEPT !.out[h.conn_of[h.current_pid]] =
                       Append(@, [tid |-> thread_id, response |-> response]),
                   !.cur.sends = @ + 1,
                   !.cur.frames = @ + 1]
    ELSE [TerminateOutcome(h, pid).h EXCEPT
             !.cur.sends = @ + 1,
             !.unable_logged[pid] = @ + 1,
             !.cur.handled = Append(@, "TerminateProcess")]

\* idle()'s loop takes the next ThreadMessage. A NewConnection is registered
\* for its key (the unwrap panics when no process waits with that key) and the
\* PID is sent back (the expect panics when the listen thread is gone); for a
\* SysCall the sender becomes the current process.
DispatchRecv ==
    /\ hs.idle = "recv"
    /\ hs.chn # <<>>
    /\ LET msg == Head(hs.chn)
           new_pid == PidOfKey(msg.key)
       IN hs' = IF msg.type = "NewConnection"
                THEN IF new_pid \in Clients /\ hs.proc[new_pid] = "Setup"
                        /\ NewPidReceiverAlive(hs)
                     THEN [hs EXCEPT !.chn = Tail(@),
                                     !.proc[new_pid] = "Ready",
                                     !.conn_of[new_pid] = msg.conn,
                                     !.new_pid_channel = Send(@, new_pid)]
                     ELSE [hs EXCEPT !.chn = Tail(@), !.idle = "panicked"]
                ELSE [hs EXCEPT !.chn = Tail(@),
                                !.current_pid = msg.pid,
                                !.cur = [NoCall EXCEPT !.pid = msg.pid,
                                                       !.tid = msg.tid,
                                                       !.call = msg.call],
                                !.idle = IF msg.call = "Shutdown" THEN "pre_reply"
                                         ELSE "handle"]
    /\ UNCHANGED <<mvars, ws, tt>>

\* message_receiver.recv() fails because every sender is gone: the loop ends.
DispatchDisconnected ==
    /\ hs.idle = "recv"
    /\ hs.chn = <<>>
    /\ ~MessageSenderAlive(hs)
    /\ hs' = [hs EXCEPT !.idle = "join"]
    /\ UNCHANGED <<mvars, ws, tt>>

\* For Shutdown, the response is sent before the call is handled.
DispatchShutdownReply ==
    /\ hs.idle = "pre_reply"
    /\ hs' = [SendResponse(hs, hs.cur.pid, hs.cur.tid, <<"Ok">>) EXCEPT !.idle = "handle"]
    /\ UNCHANGED <<mvars, ws, tt>>

\* Handle the syscall within the kernel.
DispatchHandle ==
    /\ hs.idle = "handle"
    /\ \E o \in HandleOutcomes(hs, hs.cur.pid, hs.cur.call) :
          hs' = [o.h EXCEPT !.cur.response = ResponseOf(o),
                            !.cur.result = [ok |-> o.ok, val |-> o.val],
                            !.cur.handled = Append(@, hs.cur.call),
                            !.idle = "reply"]
    /\ UNCHANGED <<mvars, ws, tt>>

\* A faulty variant of NeedsResponse that answers TerminateProcess and
\* Shutdown like any other call.
NeedsResponse_Always(cur) == cur.response # <<"BlockedProcess">>

\* A faulty variant of NeedsResponse that answers a blocked call as well.
NeedsResponse_AnswersBlocked(cur) ==
    /\ cur.call # "TerminateProcess"
    /\ cur.call # "Shutdown"

\* There is a response unless the process blocked, terminated or shut the
\* kernel down: it is sent to the process the request came from, with that
\* process current for the send and the previous one restored afterwards.
NeedsResponse(cur) ==
    /\ cur.response # <<"BlockedProcess">>
    /\ cur.call # "TerminateProcess"
    /\ cur.call # "Shutdown"

DispatchReply ==
    /\ hs.idle = "reply"
    /\ LET next == IF hs.cur.call = "Shutdown" THEN "exit" ELSE "recv"
           existing_pid == hs.current_pid
           sent == SendResponse([hs EXCEPT !.current_pid = hs.cur.pid],
                                hs.cur.pid, hs.cur.tid, hs.cur.response)
           after == IF NeedsResponse(hs.cur)
                    THEN [sent EXCEPT !.current_pid = existing_pid]
                    ELSE hs
       IN hs' = IF next = "recv"
                THEN [after EXCEPT !.idle = next,
                                   !.cur = [NoCall EXCEPT !.sends = after.cur.sends,
                                                          !.frames = after.cur.frames]]
                ELSE [after EXCEPT !.idle = next]
    /\ UNCHANGED <<mvars, ws, tt>>

\* After Shutdown: send ExitMessage::Exit (the expect panics when the exit
\* listener is gone) and leave the loop.
DispatchExit ==
    /\ hs.idle = "exit"
    /\ hs' = IF hs.exit_listener = "wait"
             THEN [hs EXCEPT !.exit_channel = Send(@, "Exit"), !.idle = "join"]
             ELSE [hs EXCEPT !.idle = "panicked"]
    /\ UNCHANGED <<mvars, ws, tt>>

\* listen_thread_handle.join(): idle() returns false when the listen thread
\* returned; the expect panics when it panicked.
DispatchJoin ==
    /\ hs.idle = "join"
    /\ hs.listen \in {"done", "panicked"}
    /\ hs' = [hs EXCEPT !.idle = IF hs.listen = "done" THEN "done" ELSE "panicked"]
    /\ UNCHANGED <<mvars, ws, tt>>

HostedNext ==
    \/ \E c \in Clients, key \in Keys : ClientSendKey(c, key)
    \/ \E c \in Clients, call \in CallKinds : ClientSendFrame(c, call)
    \/ \E c \in Clients : ClientClose(c)
    \/ \E c \in Clients : AcceptConnection(c)
    \/ AcceptShutdown
    \/ ExitListener
    \/ ExitListenerDisconnected
    \/ ListenRecv
    \/ ListenReadKey
    \/ ListenSpawn
    \/ ListenSignal
    \/ ListenExitServer
    \/ ListenJoin
    \/ \E c \in Clients : ReaderRead(c)
    \/ \E c \in Clients : ReaderEof(c)
    \/ \E c \in Clients : Watchdog(c)
    \/ \E c \in Clients : HandlerRecv(c)
    \/ \E c \in Clients : HandlerPost(c)
    \/ DispatchRecv
    \/ DispatchDisconnected
    \/ DispatchShutdownReply
    \/ DispatchHandle
    \/ DispatchReply
    \/ DispatchExit
    \/ DispatchJoin

HostedSpec == Init /\ [][HostedNext]_vars

\* ------------------------------------------------- the frames on the wire
\* One connection at the level of the bytes on its socket: what the client
\* writes, what conn_thread reads and passes on, and what handle_connection's
\* loop sends to the dispatcher.

\* size_of::<usize>() of the model's host, in bytes.
WordBytes == 2
\* The number of frames the client writes.
MaxWireFrames == 2
\* The longest payload the client announces.
MaxPayload == 2

\* The number of words of a frame.
PacketWords == 9
\* The number of the SendMessage system call.
SendMessageOpcode == 16

\* The bytes of a word as the client puts them on the wire.
to_le_bytes(word) == [i \in 1 .. WordBytes |-> (word \div (256 ^ (i - 1))) % 256]

RECURSIVE from_le_bytes(_)
from_le_bytes(bytes) ==
    IF bytes = <<>> THEN 0
    ELSE Head(bytes) + 256 * from_le_bytes(Tail(bytes))

\* The bytes of a frame of nine words as the client writes them.
RawFrame(words) ==
    [i \in 1 .. (PacketWords * WordBytes) |->
        to_le_bytes(words[((i - 1) \div WordBytes) + 1])[((i - 1) % WordBytes) + 1]]

\* packet_data as conn_thread fills it from raw_data.
PacketData(raw_data) ==
    [w \in 1 .. PacketWords |->
        from_le_bytes(SubSeq(raw_data, (w - 1) * WordBytes + 1, w * WordBytes))]

\* The protocol of the client: a frame is followed by the bytes of its buffer
\* when it is a SendMessage of a MutableBorrow, Borrow or Move message.
CarriesBuffer(words) ==
    words[2] = SendMessageOpcode /\ words[4] \in {1, 2, 3}

\* SysCall::from_args succeeds on the words 1..8 of the frame: a SendMessage
\* needs a message kind, and a memory message a buffer with an address and a
\* length that are not zero.
FromArgsOk(pkt) ==
    pkt[2] = SendMessageOpcode =>
        /\ pkt[4] \in {1, 2, 3, 4}
        /\ pkt[4] \in {1, 2, 3} => (pkt[6] # 0 /\ pkt[7] # 0)

\* A faulty variant of HasPayload that expects a payload after every
\* SendMessage, whatever the kind of its message.
HasPayload_AnyMessage(packet_data) ==
    packet_data[2] = 16

\* conn_thread's test for a payload after the frame.
HasPayload(packet_data) ==
    /\ packet_data[2] = 16
    /\ (packet_data[4] = 1 \/ packet_data[4] = 2 \/ packet_data[4] = 3)

\* The frames the client chooses from: frame number n carries n as its TID.
Opcodes == {SendMessageOpcode, 2}
Kinds == 1 .. 4
BufAddrs == {0, 258}
Lengths == 0 .. MaxPayload
PayloadBytes == {1, 16}
WireFrames(n) ==
    {<<n, nr, 1, kind, 0, addr, len, 0, 0>> :
        nr \in Opcodes, kind \in Kinds, addr \in BufAddrs, len \in Lengths}
Payloads(words) ==
    IF CarriesBuffer(words) THEN [1 .. words[7] -> PayloadBytes] ELSE {<<>>}

\* The client writes the nine words of its next frame; the payload follows in
\* a write of its own.
ClientWriteFrame(words, data) ==
    /\ ~ws.eof
    /\ ws.unsent = <<>>
    /\ Len(ws.written) < MaxWireFrames
    /\ words \in WireFrames(Len(ws.written) + 1)
    /\ data \in Payloads(words)
    /\ ws' = [ws EXCEPT !.wire = @ \o RawFrame(words),
                        !.unsent = data,
                        !.written = Append(@, [words |-> words, data |-> data])]
    /\ UNCHANGED <<mvars, hs, tt>>

ClientWritePayload ==
    /\ ~ws.eof
    /\ ws.unsent # <<>>
    /\ ws' = [ws EXCEPT !.wire = @ \o ws.unsent, !.unsent = <<>>]
    /\ UNCHANGED <<mvars, hs, tt>>

\* The client shuts the connection down, at any point of what it writes.
ClientShutdown ==
    /\ ~ws.eof
    /\ ws' = [ws EXCEPT !.eof = TRUE]
    /\ UNCHANGED <<mvars, hs, tt>>

\* sender.send(msg) of conn_thread: it fails when handle_connection has left
\* its loop and dropped the receiver.
WireSend(w, msg) ==
    IF w.handler = "loop"
    THEN [w EXCEPT !.receiver = Append(@, msg),
                   !.passed = IF msg.type = "Exit" THEN @ ELSE Append(@, msg)]
    ELSE [w EXCEPT !.reader = "panicked"]

ServerMessageExit == [type |-> "Exit", pkt |-> <<>>, data |-> <<>>]

\* conn_thread: read_exact of the nine words of a frame, which blocks until
\* they are there or the stream has ended; a frame without payload is passed
\* on at once.
ReaderReadFrame ==
    /\ ws.reader = "frame"
    /\ Len(ws.wire) >= PacketWords * WordBytes \/ ws.eof
    /\ ws' =
        IF Len(ws.wire) < PacketWords * WordBytes
        THEN [ws EXCEPT !.wire = <<>>, !.reader = "exited",
                        !.receiver = IF ws.handler = "loop"
                                     THEN Append(@, ServerMessageExit) ELSE @]
        ELSE LET raw_data == SubSeq(ws.wire, 1, PacketWords * WordBytes)
                 rest == SubSeq(ws.wire, PacketWords * WordBytes + 1, Len(ws.wire))
                 packet_data == PacketData(raw_data)
             IN IF HasPayload(packet_data)
                THEN [ws EXCEPT !.wire = rest, !.reader = "payload",
                                !.packet_data = packet_data]
                ELSE WireSend([ws EXCEPT !.wire = rest],
                              [type |-> "ServerPacket", pkt |-> packet_data,
                               data |-> <<>>])
    /\ UNCHANGED <<mvars, hs, tt>>

\* conn_thread: read_exact of the packet_data[6] bytes of the payload, then
\* the frame is passed on with them.
ReaderReadPayload ==
    /\ ws.reader = "payload"
    /\ Len(ws.wire) >= ws.packet_data[7] \/ ws.eof
    /\ ws' =
        IF Len(ws.wire) < ws.packet_data[7]
        THEN [ws EXCEPT !.wire = <<>>, !.reader = "exited", !.packet_data = <<>>,
                        !.receiver = IF ws.handler = "loop"
                                     THEN Append(@, ServerMessageExit) ELSE @]
        ELSE LET v == SubSeq(ws.wire, 1, ws.packet_data[7])
                 rest == SubSeq(ws.wire, ws.packet_data[7] + 1, Len(ws.wire))
             IN WireSend([ws EXCEPT !.wire = rest, !.reader = "frame",
                                    !.packet_data = <<>>],
                         [type |-> "ServerPacketWithData", pkt |-> ws.packet_data,
                          data |-> v])
    /\ UNCHANGED <<mvars, hs, tt>>

\* The ThreadMessage::SysCall that handle_connection sends for a frame, with
\* the buffer its message points at.
WireCall(pkt, data) == [type |-> "SysCall", tid |-> pkt[1], words |-> pkt, data |-> data]

\* handle_connection's loop takes the next ServerMessage. Exit ends the loop,
\* and the TerminateProcess call follows; a frame that does not decode is
\* logged; a frame with data must be a SendMessage, and the buffer of a memory
\* message must be as long as the data.
HandlerTake ==
    /\ ws.handler = "loop"
    /\ ws.receiver # <<>>
    /\ LET msg == Head(ws.receiver)
           w == [ws EXCEPT !.receiver = Tail(@)]
       IN ws' =
           IF msg.type = "Exit"
           THEN [w EXCEPT !.handler = "done",
                          !.calls = Append(@, [type |-> "TerminateProcess", tid |-> 1,
                                               words |-> <<>>, data |-> <<>>])]
           ELSE IF ~FromArgsOk(msg.pkt)
           THEN [w EXCEPT !.invalid = @ + 1]
           ELSE IF msg.type = "ServerPacket"
           THEN [w EXCEPT !.calls = Append(@, WireCall(msg.pkt, <<>>))]
           ELSE IF msg.pkt[2] # SendMessageOpcode
           THEN [w EXCEPT !.handler = "panicked"]
           ELSE IF msg.pkt[4] \in {1, 2, 3}
           THEN IF Len(msg.data) # msg.pkt[7]
                THEN [w EXCEPT !.handler = "panicked"]
                ELSE [w EXCEPT !.calls = Append(@, WireCall(msg.pkt, msg.data))]
           ELSE [w EXCEPT !.calls = Append(@, WireCall(msg.pkt, <<>>))]
    /\ UNCHANGED <<mvars, hs, tt>>

WireNext ==
    \/ \E n \in 1 .. MaxWireFrames : \E words \in WireFrames(n) :
           \E data \in Payloads(words) : ClientWriteFrame(words, data)
    \/ ClientWritePayload
    \/ ClientShutdown
    \/ ReaderReadFrame
    \/ ReaderReadPayload
    \/ HandlerTake

WireSpec == Init /\ [][WireNext]_vars

\* ------------------------------------------------ the tick-timer protocol
\* The times the timer is read at: every limb empty, full, or with the one
\* bit above the low twelve.
TickLimbs == {0, 4096, 65535}
TickTimes == [1 .. 4 -> TickLimbs]

\* The two words xmain passes to return_scalar2 for `time`.
ScalarWords(time) ==
    << AsUsize(And64(time, <<65535, 65535, 0, 0>>)),
       AsUsize(And64(Shr32(time), <<65535, 4095, 0, 0>>)) >>

\* The value elapsed_ms(cid) makes of Scalar2(upper, lower).
Recombine(upper, lower) == Or64(upper, Shl32(lower))

\* Time passes (or the timer was reset): the timer reads t.
TimerReads(t) ==
    /\ t \in TickTimes
    /\ tt' = [tt EXCEPT !.time = t]
    /\ UNCHANGED <<mvars, hs, ws>>

\* The client calls elapsed_ms(cid): the ElapsedMs message is sent and the
\* caller blocks.
ClientElapsedMs ==
    /\ ~tt.waiting
    /\ tt' = [tt EXCEPT !.waiting = TRUE, !.elapsed = NoScalar]
    /\ UNCHANGED <<mvars, hs, ws>>

\* xmain takes the ElapsedMs message, reads the time and returns Scalar2.
ServerElapsedMs ==
    /\ tt.waiting
    /\ tt.response = NoScalar
    /\ tt' = [tt EXCEPT !.held = tt.time, !.response = ScalarWords(tt.time)]
    /\ UNCHANGED <<mvars, hs, ws>>

\* try_send_message returns the response and elapsed_ms recombines it.
ClientReturns ==
    /\ tt.response # NoScalar
    /\ tt' = [tt EXCEPT !.waiting = FALSE, !.response = NoScalar,
                        !.elapsed = Recombine(tt.response[1], tt.response[2])]
    /\ UNCHANGED <<mvars, hs, ws>>

TickNext ==
    \/ \E t \in TickTimes : TimerReads(t)
    \/ ClientElapsedMs
    \/ ServerElapsedMs
    \/ ClientReturns

TickSpec == Init /\ [][TickNext]_vars

\* ------------------------------------------------- claims on the dispatcher
\* Whether the message in hand has been handed to syscall::handle as `call`.
Handled(h, call) ==
    \E i \in 1 .. Len(h.cur.handled) : h.cur.handled[i] = call

\* ExitMessage::Exit has been sent.
ExitSent(h) == h.exit_channel # <<>> \/ h.exit_listener # "wait"

\* What holds while idle() has a Shutdown in hand.
ShutdownState(h) ==
    LET cur == h.cur
        conn == h.conn_of[cur.pid]
    IN  /\ h.idle \in {"pre_reply", "handle", "reply", "exit", "join", "done", "panicked"}
        /\ h.idle = "pre_reply" => cur.sends = 0 /\ cur.handled = <<>> /\ ~ExitSent(h)
        /\ h.idle # "pre_reply" => cur.sends = 1
        /\ cur.frames = 1 =>
              /\ cur.sends = 1
              /\ h.out[conn] # <<>>
              /\ h.out[conn][Len(h.out[conn])] = [tid |-> cur.tid, response |-> <<"Ok">>]
        /\ cur.frames = 0 /\ cur.sends = 1 =>
              cur.handled # <<>> /\ Head(cur.handled) = "TerminateProcess"
        /\ Handled(h, "Shutdown") => cur.sends = 1
        /\ ExitSent(h) => Handled(h, "Shutdown")

\* C14: for a Shutdown, the response frame (the TID, then Ok) is sent to the
\* caller's connection before the call is handled and before
\* ExitMessage::Exit is sent, no second response is sent for it, no frame goes
\* to another connection, and the dispatcher takes no further message from its
\* channel. (When the write fails, TerminateProcess is handled in its place.)
C14_ShutdownRepliesFirst ==
    [][/\ hs'.cur.call = "Shutdown" => ShutdownState(hs')
       /\ hs.cur.call = "Shutdown" =>
             /\ hs'.cur.call = "Shutdown"
             /\ hs'.cur.pid = hs.cur.pid /\ hs'.cur.tid = hs.cur.tid
             /\ Len(hs'.chn) >= Len(hs.chn)
             /\ \A c \in Clients :
                   \/ hs'.out[c] = hs.out[c]
                   \/ hs.idle = "pre_reply" /\ c = hs.conn_of[hs.cur.pid]]_vars

\* The kernel has exited after a Shutdown whose response frame was written.
C14_Witness ==
    /\ hs.cur.call = "Shutdown"
    /\ hs.cur.frames = 1
    /\ hs.idle = "done"

\* C15: while idle() has a TerminateProcess in hand, sent by the client or
\* posted by its handler, it makes no call of Process::send and no frame is
\* written to any connection.
C15_TerminateNoResponse ==
    [][hs.cur.call = "TerminateProcess" =>
          /\ hs'.out = hs.out
          /\ hs'.cur.sends = 0
          /\ hs'.cur.frames = 0]_vars

\* The TerminateProcess a handler posted has ended the process, and the
\* dispatcher is at the point where other calls are answered.
C15_Witness ==
    /\ hs.idle = "reply"
    /\ hs.cur.call = "TerminateProcess"
    /\ hs.cur.tid = 1
    /\ hs.cur.handled = <<"TerminateProcess">>
    /\ hs.cur.result.ok

\* The dispatcher leaves the point where a call is answered.
ReplyStep == hs.idle = "reply" /\ hs'.idle # "reply"

\* The call in hand is one that is answered: not TerminateProcess, not
\* Shutdown, and syscall::handle did not return Ok(BlockedProcess).
Answered(cur) ==
    /\ cur.call \notin {"none", "TerminateProcess", "Shutdown"}
    /\ ~(cur.result.ok /\ cur.result.val = "BlockedProcess")

\* The frame that answers the call in hand: its TID, then the words of the
\* result, Error(kind) for Err(kind).
AnswerFrame(cur) ==
    [tid |-> cur.tid,
     response |-> IF cur.result.ok THEN <<cur.result.val>>
                  ELSE <<"Error", cur.result.val>>]

\* The connection of process pid can still be written.
Writable(h, pid) ==
    /\ h.proc[pid] = "Ready"
    /\ h.cst[h.conn_of[pid]] # "closed"
    /\ ~h.conn_shut[h.conn_of[pid]]

\* C16: a call that is neither TerminateProcess nor Shutdown and whose result
\* is not BlockedProcess is answered by exactly one send: the frame (tid, then
\* the result, Error(kind) for Err(kind)) is appended to the connection of the
\* calling process, whichever process the call left current, and no other
\* connection is written. (A connection that can no longer be written gets no
\* frame; no other step taken for the call writes a frame.)
C16_OneResponseToCaller ==
    [][/\ ReplyStep /\ Answered(hs.cur) =>
             LET conn == hs.conn_of[hs.cur.pid] IN
             /\ hs'.cur.sends = 1
             /\ \A c \in Clients : c # conn => hs'.out[c] = hs.out[c]
             /\ hs'.out[conn] = IF Writable(hs, hs.cur.pid)
                                THEN Append(hs.out[conn], AnswerFrame(hs.cur))
                                ELSE hs.out[conn]
       /\ hs.cur.call \notin {"none", "Shutdown"} /\ ~ReplyStep => hs'.out = hs.out]_vars

\* The last call was answered with a frame on connection 1 although it left
\* process 2 current, a process that has made no call.
C16_Witness ==
    /\ hs.idle = "recv"
    /\ hs.cur.frames = 1
    /\ hs.current_pid = 2
    /\ hs.nsent[2] = 0
    /\ hs.out[2] = <<>>
    /\ hs.out[1] # <<>>

\* The TIDs of a sequence of frames or messages.
Tids(s) == [i \in 1 .. Len(s) |-> s[i].tid]

StrictlyIncreasing(s) == \A i \in 1 .. Len(s) - 1 : s[i] < s[i + 1]

\* The TIDs of the frames of connection c that have not been answered, from
\* the one the dispatcher has in hand back to those still in the socket. The
\* TerminateProcess a handler posts (TID 1) is not a frame of the client.
InHand(c) ==
    IF hs.cur.pid = hs.handler_pid[c] /\ hs.cur.tid > 1 /\ hs.cur.frames = 0
    THEN <<hs.cur.tid>> ELSE <<>>

InChannel(c) ==
    Tids(SelectSeq(hs.chn, LAMBDA m : /\ m.type = "SysCall"
                                      /\ m.pid = hs.handler_pid[c]
                                      /\ m.tid > 1))

InHandler(c) ==
    LET packets == SelectSeq(hs.server_channel[c],
                             LAMBDA m : m.type = "ServerPacket")
    IN  [i \in 1 .. Len(packets) |-> packets[i].pkt.tid]

Unanswered(c) ==
    InHand(c) \o InChannel(c) \o InHandler(c) \o Tids(hs.sock[c])

\* C17: on each connection the frames stay in the order they were sent, from
\* the socket through the handler and the channel to the dispatcher, and the
\* responses on the connection carry TIDs of frames the client sent, in the
\* order of those frames and ahead of every frame not answered yet.
C17_PerConnectionOrder ==
    \A c \in Clients :
        /\ StrictlyIncreasing(Tids(hs.out[c]) \o Unanswered(c))
        /\ \A i \in 1 .. Len(hs.out[c]) :
              \E n \in 1 .. hs.nsent[c] : hs.out[c][i].tid = FrameTid(n)

\* Two clients were served: two responses on connection 1 and one on
\* connection 2.
C17_Witness ==
    /\ Len(hs.out[1]) = 2
    /\ Len(hs.out[2]) = 1

\* The handler of connection c takes a frame from its channel.
HandlerTakes(c) ==
    /\ hs.handler[c] = "loop"
    /\ hs.server_channel[c] # <<>>
    /\ Head(hs.server_channel[c]).type = "ServerPacket"
    /\ hs'.server_channel[c] = Tail(hs.server_channel[c])

\* C18: a frame that does not decode is logged and dropped: nothing is sent
\* to the dispatcher, the handler stays in its loop and the reader and the
\* connection are left as they are. A frame that decodes, whether or not
\* frames before it failed to, is sent to the dispatcher with the PID of the
\* connection and its TID (while the dispatcher runs).
C18_BadFrameSkipped ==
    [][\A c \in Clients : HandlerTakes(c) =>
          LET pkt == Head(hs.server_channel[c]).pkt IN
          IF pkt.call = "Bad"
          THEN /\ hs'.chn = hs.chn
               /\ hs'.handler[c] = "loop"
               /\ hs'.conn_thread[c] = hs.conn_thread[c]
               /\ hs'.conn_shut = hs.conn_shut
               /\ hs'.invalid_logged[c] = hs.invalid_logged[c] + 1
          ELSE MessageReceiverAlive(hs) =>
               /\ hs'.handler[c] = "loop"
               /\ hs'.chn = Append(hs.chn, [type |-> "SysCall", conn |-> 0, key |-> 0,
                                            pid |-> hs.handler_pid[c],
                                            tid |-> pkt.tid, call |-> pkt.call])]_vars

\* The first frame of connection 1 did not decode, and its second frame has
\* been dispatched and answered.
C18_Witness ==
    /\ hs.invalid_logged[1] = 1
    /\ Len(hs.out[1]) = 1
    /\ hs.out[1][1].tid = FrameTid(2)

\* The dispatcher has left its receive loop for good.
DispatcherStopped == hs.idle \in {"exit", "join", "done"}

\* The TerminateProcess messages posted by handlers that wait in the channel.
PostedTerminates ==
    SelectSeq(hs.chn, LAMBDA m : /\ m.type = "SysCall"
                                 /\ m.call = "TerminateProcess"
                                 /\ m.tid = 1)

\* C19: the TerminateProcess (TID 1) that a handler posts after its reader
\* saw EOF or a read error is processed by the dispatcher: none is left in the
\* channel of a dispatcher that has stopped receiving.
C19_PostedTerminateProcessed ==
    DispatcherStopped => PostedTerminates = <<>>

\* The steps of the kernel's own threads: every step but those a client
\* takes (connecting, sending its key, sending a frame, closing).
KernelNext ==
    \/ AcceptShutdown
    \/ ExitListener
    \/ ExitListenerDisconnected
    \/ ListenRecv
    \/ ListenReadKey
    \/ ListenSpawn
    \/ ListenSignal
    \/ ListenExitServer
    \/ ListenJoin
    \/ \E c \in Clients : ReaderRead(c)
    \/ \E c \in Clients : ReaderEof(c)
    \/ \E c \in Clients : Watchdog(c)
    \/ \E c \in Clients : HandlerRecv(c)
    \/ \E c \in Clients : HandlerPost(c)
    \/ DispatchRecv
    \/ DispatchDisconnected
    \/ DispatchShutdownReply
    \/ DispatchHandle
    \/ DispatchReply
    \/ DispatchExit
    \/ DispatchJoin

\* syscall::handle has run for a Shutdown.
ShutdownDispatched == hs.cur.call = "Shutdown" /\ Handled(hs, "Shutdown")

\* The accept thread has returned, every handler thread that was started has
\* ended and been joined, the listen thread has returned and idle() has
\* returned.
KernelExited ==
    /\ hs.accept = "done"
    /\ \A c \in Clients : hs.handler[c] \in {"none", "done"}
    /\ hs.listen = "done" /\ hs.joining > Len(hs.clients)
    /\ hs.idle = "done"

\* C20: after a Shutdown is dispatched the kernel exits: whenever none of the
\* kernel's threads can take another step, all of them have returned.
C20_ShutdownExits ==
    (ShutdownDispatched /\ ~ENABLED KernelNext) => KernelExited

\* The dispatcher takes a NewConnection whose key matches no process in Setup.
TakesUnregisteredKey ==
    /\ hs.idle = "recv"
    /\ hs.chn # <<>>
    /\ Head(hs.chn).type = "NewConnection"
    /\ LET p == PidOfKey(Head(hs.chn).key) IN
       ~(p \in Clients /\ hs.proc[p] = "Setup")
    /\ hs'.chn = Tail(hs.chn)

\* C21: a connection that presents a key matching no process in Setup does
\* not crash the kernel: the dispatcher does not panic, sends no PID back and
\* stays in its loop to serve the other processes.
C21_UnknownKeyNoCrash ==
    [][TakesUnregisteredKey =>
          /\ hs'.idle = "recv"
          /\ hs'.new_pid_channel = hs.new_pid_channel
          /\ hs'.proc = hs.proc]_vars

\* The dispatcher makes the early send of a Shutdown.
ShutdownReplyStep == hs.idle = "pre_reply" /\ hs'.idle # "pre_reply"

\* What a failed send to process pid leads to, within the same step: the
\* process is ended if it was running and its connection closed, the failure
\* is logged, no message is taken from the channel and no other process is
\* touched.
TerminatedOnFailedSend(pid) ==
    /\ hs'.unable_logged[pid] = hs.unable_logged[pid] + 1
    /\ hs'.proc[pid] # "Ready"
    /\ hs.proc[pid] = "Ready" =>
          hs'.proc[pid] = "Terminated" /\ hs'.conn_shut[hs.conn_of[pid]]
    /\ \A p \in Clients : p # pid => hs'.proc[p] = hs.proc[p]
    /\ hs'.chn = hs.chn
    /\ hs'.out = hs.out

\* C22: when the write of a response frame to the calling process fails, the
\* dispatcher handles TerminateProcess for that process in the same step,
\* before it takes another message, and then goes on: back to its receive
\* loop after an ordinary call, on to the handling after a Shutdown's early
\* send.
C22_FailedSendTerminates ==
    [][/\ (ReplyStep /\ Answered(hs.cur) /\ ~Writable(hs, hs.cur.pid)) =>
             TerminatedOnFailedSend(hs.cur.pid) /\ hs'.idle = "recv"
       /\ (ShutdownReplyStep /\ ~Writable(hs, hs.cur.pid)) =>
             /\ TerminatedOnFailedSend(hs.cur.pid)
             /\ hs'.idle = "handle"
             /\ hs'.cur.handled = <<"TerminateProcess">>]_vars

\* A send to process 1 failed and the process has ended; the message the
\* dispatcher handled last, after that, was answered with a frame.
C22_Witness ==
    /\ hs.unable_logged[1] = 1
    /\ hs.proc[1] = "Terminated"
    /\ hs.idle = "recv"
    /\ hs.cur.frames = 1

\* syscall::handle returned Ok(BlockedProcess) for the call in hand.
Blocked(cur) ==
    /\ cur.call \notin {"none", "TerminateProcess", "Shutdown"}
    /\ cur.result.ok /\ cur.result.val = "BlockedProcess"

\* No frame of connection c is on its way to the dispatcher or in its hand.
NothingPending(c) ==
    /\ hs.sock[c] = <<>>
    /\ hs.server_channel[c] = <<>>
    /\ InChannel(c) = <<>>
    /\ hs.cur.pid # hs.handler_pid[c]

\* C23: when the result of a call is BlockedProcess the dispatcher makes no
\* send and writes no frame, and in the same step returns to its receive loop
\* with the channel as it was, so the messages behind it are taken next.
C23_BlockedNoResponse ==
    [][(ReplyStep /\ Blocked(hs.cur)) =>
          /\ hs'.out = hs.out
          /\ hs'.cur.sends = 0
          /\ hs'.idle = "recv"
          /\ hs'.chn = hs.chn
          /\ hs'.proc = hs.proc]_vars

\* The one call of process 1 was handled with BlockedProcess (it got no
\* frame, did not fail to decode or to be answered, and its process runs),
\* and the call the dispatcher handled last, one of process 2, was answered.
C23_Witness ==
    /\ hs.nsent[1] = 1 /\ NothingPending(1)
    /\ hs.out[1] = <<>>
    /\ hs.invalid_logged[1] = 0 /\ hs.unable_logged[1] = 0
    /\ hs.proc[1] = "Ready" /\ hs.handler_pid[1] = 1
    /\ hs.idle = "recv"
    /\ hs.cur.frames = 1
    /\ Len(hs.out[2]) = 1

\* C24: when lend_page_inner, return_page_inner or move_page_inner returns,
\* with Ok or with an error, the address space of the caller (src_space) is
\* the active one, also when the destination space was activated on the way.
C24_SourceSpaceRestored ==
    [][(last'.op \in {"lend", "return", "move"} /\ ~Stopped(last'.res))
          => satp' = MappingOf(last'.pid)]_vars

\* A move came back with an error raised while the destination space was
\* active, and the caller's space is the active one.
C24_Witness ==
    /\ last.op = "move" /\ last.res = "OutOfMemory"
    /\ last.dpid # last.pid
    /\ satp = MappingOf(last.pid)

\* The operations that write page-table entries.
WritingOps == {"reserve", "map", "hand", "unmap", "move", "lend", "return"}

\* C25: when one of the page-table operations has written an entry and
\* returns, flush_mmu has run after its last write. (A switch of address space
\* flushes by itself before it writes satp.)
C25_WritesFlushed ==
    [][(last'.op \in WritingOps /\ ~Stopped(last'.res) /\ mem' # mem)
          => ~unflushed']_vars

\* The address map_page_inner or reserve_address installs an entry for, the
\* process it does so for and the root table it starts from: reserve_address
\* and a direct map_page_inner work on the caller's address in the active
\* space, the map_page_inner of a move or a lend on dest_addr in the space of
\* dest_pid.
InstallsInDest == last'.op \in {"move", "lend"}
InstallAddr == IF InstallsInDest THEN last'.dst ELSE last'.src
InstallPid == IF InstallsInDest THEN last'.dpid ELSE last'.pid
InstallRoot == RootFrame(InstallPid)

\* The call returned Ok and the vpn1 of the address had no valid entry in
\* the root table when the call was made.
AllocatedLeafTable ==
    /\ last'.op \in {"map", "reserve", "move", "lend"}
    /\ last'.res = "Ok"
    /\ ~Has(mem[InstallRoot][Vpn1(InstallAddr)], MMU_VALID)

C27_RelendAfterImmutableReturn ==
    halted = "run" =>
    \A s \in HeapAddrs, d \in MessageAddrs, b \in PIDs \ {Cur}, again \in BOOLEAN :
        LET pre == EntryOf(mem, Cur, s.page)
            lend == LendFrom(KState, s, b, d, FALSE)
            ret == ReturnTo(lend.k, b, d, Cur, s)
            relend == LendFrom(activate(ret.k, MappingOf(Cur)), s, b, d, again)
        IN  (/\ IsV(pre) /\ ~IsS(pre)
             /\ ~IsV(EntryOf(mem, b, d.page))
             /\ lend.res = "Ok")
            => /\ ret.res = "Ok"
               /\ ~IsS(EntryOf(ret.k.mem, Cur, s.page))
               /\ ~IsV(EntryOf(ret.k.mem, b, d.page))
               /\ relend.res = "Ok"
               /\ IsV(EntryOf(relend.k.mem, b, d.page))

\* C27 witness: an immutable loan has just been made whose return by the
\* borrower succeeds and after which the lender lends the same address to the
\* same borrower address again, this time mutably, with success.
C27_Witness ==
    /\ last.op = "lend" /\ last.res = "Ok"
    /\ IsV(EntryOf(mem, last.dpid, last.dst.page))
    /\ \E b \in PIDs \ {last.pid} :
        LET back == ReturnTo(KState, b, last.dst, last.pid, last.src)
            relend == LendFrom(activate(back.k, MappingOf(last.pid)),
                               last.src, b, last.dst, TRUE)
        IN  /\ b = last.dpid /\ ~last.mutable
            /\ back.res = "Ok" /\ relend.res = "Ok"

\* C28: from every reachable state, for every source address whose leaf entry
\* has V=0 and S=0 (never mapped, or only reserved), every destination and
\* either kind of loan: lend_page_inner returns BadAddress, changes no
\* page-table entry and maps nothing in the destination space.
C28_LendUnallocatedBadAddress ==
    halted = "run" =>
    \A s \in UserAddrs, d \in MessageAddrs, b \in PIDs \ {Cur}, mutable \in BOOLEAN :
        LET pre == EntryOf(mem, Cur, s.page)
            lend == LendFrom(KState, s, b, d, mutable)
        IN  (~IsV(pre) /\ ~IsS(pre))
            => /\ lend.res = "BadAddress"
               /\ lend.k.mem = mem

\* The threads of connection c have been started.
Spawned(h, c) == h.conn_thread[c] # "none"

\* C29: the PID that the handle_connection of a connection runs with is the
\* PID the dispatcher resolved from the access key read from that same
\* connection, and it is the connection registered for that PID, whatever the
\* order in which the clients connect; and the reader thread of a connection
\* starts only in the step that takes this PID from new_pid_channel.
C29_PidMatchesConnectionKey ==
    [][\A c \in Clients :
        /\ Spawned(hs', c) =>
              /\ hs'.handler_pid[c] = PidOfKey(hs'.access_key[c])
              /\ hs'.handler_pid[c] \in PIDs
              /\ hs'.conn_of[hs'.handler_pid[c]] = c
        /\ (Spawned(hs', c) /\ ~Spawned(hs, c)) =>
              /\ hs.new_pid_channel # <<>>
              /\ hs'.handler_pid[c] = Head(hs.new_pid_channel)
              /\ hs'.new_pid_channel = Tail(hs.new_pid_channel)]_vars

\* C29 witness: both clients have connected, the second one first, and each
\* reader thread runs with the PID of its own connection's key.
C29_Witness ==
    /\ hs.clients = <<2, 1>>
    /\ Spawned(hs, 1) /\ Spawned(hs, 2)
    /\ hs.handler_pid[1] = PidOfKey(hs.access_key[1])
    /\ hs.handler_pid[2] = PidOfKey(hs.access_key[2])
    /\ hs.handler_pid[1] # hs.handler_pid[2]

\* The bytes of the frames the client has written from frame number i on,
\* each followed by its payload.
RECURSIVE WrittenFrom(_)
WrittenFrom(i) ==
    IF i > Len(ws.written) THEN <<>>
    ELSE RawFrame(ws.written[i].words) \o ws.written[i].data \o WrittenFrom(i + 1)

\* C30: conn_thread consumes nine words for each frame and then the words[6]
\* bytes of its payload exactly when word 1 is 16 and word 3 is 1, 2 or 3:
\* the frames it has passed on are, in order, the frames the client wrote,
\* each with the payload that followed it (as long as word 6 says) and with
\* data exactly when the frame carries a buffer; whenever it is about to read
\* a frame the bytes still to come start at the boundary of the next frame
\* the client wrote, and while it reads a payload they start with that
\* payload; and every system call sent on to the dispatcher carries the words
\* and the payload of the frame with its number.
C30_ReaderFraming ==
    /\ Len(ws.passed) <= Len(ws.written)
    /\ \A i \in 1 .. Len(ws.passed) :
        LET f == ws.written[i]
            m == ws.passed[i]
        IN  /\ m.pkt = f.words
            /\ m.data = f.data
            /\ (m.type = "ServerPacketWithData") = CarriesBuffer(f.words)
            /\ CarriesBuffer(f.words) => Len(m.data) = f.words[7]
    /\ ws.reader = "frame" =>
          ws.wire \o ws.unsent = WrittenFrom(Len(ws.passed) + 1)
    /\ ws.reader = "payload" =>
          /\ Len(ws.passed) < Len(ws.written)
          /\ ws.packet_data = ws.written[Len(ws.passed) + 1].words
          /\ ws.wire \o ws.unsent =
                 ws.written[Len(ws.passed) + 1].data \o WrittenFrom(Len(ws.passed) + 2)
    /\ \A k \in 1 .. Len(ws.calls) :
        ws.calls[k].type = "SysCall" =>
            /\ ws.calls[k].tid \in 1 .. Len(ws.written)
            /\ ws.calls[k].words = ws.written[ws.calls[k].tid].words
            /\ CarriesBuffer(ws.calls[k].words) =>
                   ws.calls[k].data = ws.written[ws.calls[k].tid].data

\* C30 witness: the client wrote a frame with a payload of two bytes that does
\* not decode and then a memory message with a payload of two bytes; the first
\* was logged and the second was sent on with exactly its own payload.
C30_Witness ==
    /\ Len(ws.written) = 2
    /\ CarriesBuffer(ws.written[1].words) /\ Len(ws.written[1].data) = 2
    /\ ~FromArgsOk(ws.written[1].words)
    /\ ws.written[2].data = <<16, 1>>
    /\ ws.written[1].data # ws.written[2].data
    /\ ws.invalid = 1
    /\ Len(ws.calls) = 1
    /\ ws.calls[1].tid = 2
    /\ ws.calls[1].data = <<16, 1>>
    /\ ws.reader = "frame" /\ ws.wire = <<>>

\* C31: whenever elapsed_ms(cid) has returned, its value is the 64-bit time the
\* server read for that request: splitting the time into the two Scalar2 words
\* and recombining them gives the time back, for every 64-bit time.
C31_ElapsedMsRoundTrip ==
    tt.elapsed # NoScalar => tt.elapsed = tt.held

\* C32: while the kernel runs, whenever a frame that a process owns and has
\* an entry for is mapped valid in another address space (a loan that has not
\* been returned), the owner cannot write it: its entry has V=0 or W=0.
C32_LenderCannotWriteLentPage ==
    halted = "run" =>
    \A p \in PIDs, pg \in UserPages :
        LET e == EntryOf(mem, p, pg) IN
        (/\ Allocated(mem, p, pg)
         /\ owner[FrameOf(e)] = p
         /\ BorrowTargets(p, pg) # {})
        => (~IsV(e) \/ ~IsW(e))

\* C33: on every step of lend_page_inner that returns ShareViolation or
\* OutOfMemory, the lender's entry for src_addr is what it was before the call.
C33_FailedLendLeavesLender ==
    [][(last'.op = "lend" /\ last'.res \in {"ShareViolation", "OutOfMemory"})
       => EntryOf(mem', last'.pid, last'.src.page)
              = EntryOf(mem, last'.pid, last'.src.page)]_vars

\* C34: the dispatcher handles at most one TerminateProcess for the PID of a
\* connection, whoever sent the first: on every step in which it handles the
\* TerminateProcess that handle_connection posts when its loop has ended
\* (TID 1), the process has not been terminated by an earlier one.
C34_OneTerminatePerConnection ==
    [][(/\ hs.idle = "handle" /\ hs'.idle = "reply"
        /\ hs.cur.call = "TerminateProcess"
        /\ hs.cur.tid = 1)
       => hs.proc[hs.cur.pid] # "Terminated"]_vars

\* C35: in every interleaving of a connection's reader thread, its
\* should_exit thread and its handler loop, once the handler has left its
\* loop on an Exit and dropped its receiver, the reader does not send a frame
\* on that channel: its unwrap on the send does not panic.
C35_ReaderSendNeverPanics ==
    \A c \in Clients :
        hs.handler[c] \in {"post", "done"} => hs.conn_thread[c] # "panicked"

====
